---- MODULE Spec2Model ----
(***************************************************************************)
(* tkube: version detection (VersionDetector), the tsh installer and its   *)
(* on-disk registry (TSHInstaller), and the Client / Handler entry points  *)
(* that use them.  Strings are TLA+ strings, taken apart with Len, SubSeq  *)
(* and \o as the Go code takes them apart with the strings package.        *)
(***************************************************************************)
EXTENDS Integers, Sequences, FiniteSets, TLC

VARIABLES
    environ,    \* the process environment: variable name -> value ("" = unset)
    det,        \* the last DetectTSHVersion call and what it returned
    goos,       \* runtime.GOOS of the build
    fs,         \* the registry: fs[""] is baseDir itself, fs[v] is baseDir/v
    config,     \* config.Environments: name -> [proxy, tsh_version]
    last,       \* the last installer / registry call and what it returned
    call,       \* an InstallTSH call that is between its two attempts
    calls,      \* the calls made so far that change the registry
    pure,       \* a call of a function that reads no state: its input and its result
    sessions,   \* the credential directories under ~/.tkube/sessions: path -> content
    cl          \* the last Client call: what it returned and what it launched

vars == <<environ, det, goos, fs, config, last, call, calls, pure, sessions, cl>>

(***************************************************************************)
(* strings                                                                 *)
(***************************************************************************)

\* strings.HasPrefix
HasPrefix(s, p) == Len(s) >= Len(p) /\ SubSeq(s, 1, Len(p)) = p

\* strings.TrimPrefix: the prefix is removed once, if present
TrimPrefix(s, p) == IF HasPrefix(s, p) THEN SubSeq(s, Len(p) + 1, Len(s)) ELSE s

\* the byte of s at 1-based position i, "" past the end
At(s, i) == IF i >= 1 /\ i <= Len(s) THEN SubSeq(s, i, i) ELSE ""

Digits == {"0", "1", "2", "3", "4", "5", "6", "7", "8", "9"}

\* does p occur in s starting at position i
MatchAt(s, p, i) == i + Len(p) - 1 <= Len(s) /\ SubSeq(s, i, i + Len(p) - 1) = p

\* strings.Contains
Contains(s, p) == \E i \in 1..(Len(s) + 1) : MatchAt(s, p, i)

\* strings.Index: the 0-based position of the first occurrence of p in s, -1 if none
Index(s, p) ==
    IF Contains(s, p)
    THEN (CHOOSE i \in 1..(Len(s) + 1) :
              MatchAt(s, p, i) /\ \A j \in 1..(Len(s) + 1) : MatchAt(s, p, j) => i <= j) - 1
    ELSE -1

\* the bytes of the characters that the compared strings are made of
ByteOf ==
    [c \in Digits \cup {"-", ".", "v"} |->
        CASE c = "-" -> 45 [] c = "." -> 46 [] c = "0" -> 48 [] c = "1" -> 49
          [] c = "2" -> 50 [] c = "3" -> 51 [] c = "4" -> 52 [] c = "5" -> 53
          [] c = "6" -> 54 [] c = "7" -> 55 [] c = "8" -> 56 [] c = "9" -> 57
          [] c = "v" -> 118]

\* a >= b for Go strings, decided from position i on: bytewise, a proper prefix
\* is the smaller string
RECURSIVE StringGE(_, _, _)
StringGE(a, b, i) ==
    IF i > Len(b) THEN TRUE
    ELSE IF i > Len(a) THEN FALSE
    ELSE IF At(a, i) = At(b, i) THEN StringGE(a, b, i + 1)
    ELSE ByteOf[At(a, i)] > ByteOf[At(b, i)]

\* the position after the longest run of digits of s that starts at i (\d+, greedy)
RECURSIVE DigitsEnd(_, _)
DigitsEnd(s, i) == IF At(s, i) \in Digits THEN DigitsEnd(s, i + 1) ELSE i

UpperOf ==
    [c \in {"a", "b", "c", "d", "e", "f", "g", "h", "i", "j", "k", "l", "m",
            "n", "o", "p", "q", "r", "s", "t", "u", "v", "w", "x", "y", "z"} |->
        CASE c = "a" -> "A" [] c = "b" -> "B" [] c = "c" -> "C" [] c = "d" -> "D"
          [] c = "e" -> "E" [] c = "f" -> "F" [] c = "g" -> "G" [] c = "h" -> "H"
          [] c = "i" -> "I" [] c = "j" -> "J" [] c = "k" -> "K" [] c = "l" -> "L"
          [] c = "m" -> "M" [] c = "n" -> "N" [] c = "o" -> "O" [] c = "p" -> "P"
          [] c = "q" -> "Q" [] c = "r" -> "R" [] c = "s" -> "S" [] c = "t" -> "T"
          [] c = "u" -> "U" [] c = "v" -> "V" [] c = "w" -> "W" [] c = "x" -> "X"
          [] c = "y" -> "Y" [] c = "z" -> "Z"]

\* proxyKey of getVersionFromEnvironment: ReplaceAll(":", "_"), ReplaceAll(".", "_"),
\* ToUpper, one byte at a time
RECURSIVE ProxyKeyFrom(_, _)
ProxyKeyFrom(s, i) ==
    IF i > Len(s) THEN ""
    ELSE LET c == At(s, i)
             d == IF c = ":" \/ c = "." THEN "_"
                  ELSE IF c \in DOMAIN UpperOf THEN UpperOf[c] ELSE c
         IN d \o ProxyKeyFrom(s, i + 1)

ProxyKey(proxy) == ProxyKeyFrom(proxy, 1)

(***************************************************************************)
(* VersionDetector                                                         *)
(***************************************************************************)

\* os.Getenv: a variable that is not set reads as ""
Getenv(env, name) == IF name \in DOMAIN env THEN env[name] ELSE ""

\* the outcome of a call that returns (string, error)
Ok(v) == [version |-> v, err |-> FALSE]
Err == [version |-> "", err |-> TRUE]

\* normalizeVersion: three TrimPrefix calls, each applied once, in this order
normalizeVersion(version) ==
    TrimPrefix(TrimPrefix(TrimPrefix(version, "v"), "teleport-"), "tsh-")

\* queryEndpoint on the reply of GET https://<proxy>/webapi/ping.  reply.ok: the
\* request succeeded with status 200 and the body decoded as JSON
queryEndpoint(reply) ==
    IF reply.ok /\ reply.server_version /= "" THEN Ok(normalizeVersion(reply.server_version))
    ELSE IF reply.ok /\ reply.version /= "" THEN Ok(normalizeVersion(reply.version))
    ELSE IF reply.ok /\ reply.build /= "" THEN Ok(normalizeVersion(reply.build))
    ELSE Err

\* getVersionFromServer: an empty version counts as a failure
getVersionFromServer(reply) ==
    LET q == queryEndpoint(reply)
    IN IF ~q.err /\ q.version /= "" THEN q ELSE Err

\* the patterns of extractVersionFromProxy, in order: each is a literal prefix, an
\* optional "v" where the pattern has v?, then (\d+)(?:\.(\d+))?(?:\.(\d+))?
hostnamePatterns ==
    << [prefix |-> "teleport-", optV |-> TRUE],
       [prefix |-> "teleport", optV |-> FALSE],
       [prefix |-> "tsh-", optV |-> TRUE] >>

\* where the first digit group starts when pattern pat matches s at position i,
\* 0 when it does not match there
GroupStart(pat, s, i) ==
    LET j == i + Len(pat.prefix)
    IN IF ~MatchAt(s, pat.prefix, i) THEN 0
       ELSE IF pat.optV /\ At(s, j) = "v" /\ At(s, j + 1) \in Digits THEN j + 1
       ELSE IF At(s, j) \in Digits THEN j
       ELSE 0

\* regexp.FindStringSubmatch, leftmost match, followed by the code's reassembly of
\* the groups: group 1, then "." and group 2, then "." and group 3, each if matched
FindVersion(pat, s) ==
    LET at == {i \in 1..Len(s) : GroupStart(pat, s, i) > 0}
    IN IF at = {} THEN [matched |-> FALSE, version |-> ""]
       ELSE LET i == CHOOSE k \in at : \A m \in at : k <= m
                b == GroupStart(pat, s, i)
                e1 == DigitsEnd(s, b)
                e2 == IF At(s, e1) = "." /\ At(s, e1 + 1) \in Digits
                      THEN DigitsEnd(s, e1 + 1) ELSE e1
                e3 == IF e2 > e1 /\ At(s, e2) = "." /\ At(s, e2 + 1) \in Digits
                      THEN DigitsEnd(s, e2 + 1) ELSE e2
            IN [matched |-> TRUE, version |-> SubSeq(s, b, e3 - 1)]

\* the pattern loop of extractVersionFromProxy: the first pattern that matches
matchHostname(proxy) ==
    LET hit == {n \in 1..Len(hostnamePatterns) : FindVersion(hostnamePatterns[n], proxy).matched}
    IN IF hit = {} THEN [matched |-> FALSE, version |-> ""]
       ELSE FindVersion(hostnamePatterns[CHOOSE n \in hit : \A m \in hit : n <= m], proxy)

\* the variables getVersionFromEnvironment reads, in the order it reads them
overrideVars(proxy) ==
    << "TELEPORT_VERSION", "TSH_VERSION", "TELEPORT_TSH_VERSION",
       ProxyKey(proxy) \o "_TELEPORT_VERSION", ProxyKey(proxy) \o "_TSH_VERSION" >>

\* getVersionFromEnvironment: the first variable with a non-empty value decides,
\* and its value is returned normalized (even if that leaves "")
getVersionFromEnvironment(proxy, env) ==
    LET names == overrideVars(proxy)
        set == {n \in 1..Len(names) : Getenv(env, names[n]) /= ""}
    IN IF set = {} THEN ""
       ELSE normalizeVersion(Getenv(env, names[CHOOSE n \in set : \A m \in set : n <= m]))

\* extractVersionFromProxy without its environment fallback: the faulty variant
\* that C10 must tell from the code
extractVersionFromProxyNoEnv(proxy, env) ==
    IF matchHostname(proxy).matched THEN Ok(matchHostname(proxy).version) ELSE Err

\* extractVersionFromProxy: hostname patterns, then the environment
extractVersionFromProxy(proxy, env) ==
    LET h == matchHostname(proxy)
        e == getVersionFromEnvironment(proxy, env)
    IN IF h.matched THEN Ok(h.version)
       ELSE IF e /= "" THEN Ok(e)
       ELSE Err

\* DetectTSHVersion with the strategies in the wrong order, hostname and
\* environment before the server: the faulty variant that C8 must tell from the code
DetectHostnameFirst(proxy, reply, env) ==
    IF ~extractVersionFromProxy(proxy, env).err THEN extractVersionFromProxy(proxy, env)
    ELSE getVersionFromServer(reply)

\* DetectTSHVersion: the server first, extractVersionFromProxy when it fails
DetectTSHVersion(proxy, reply, env) ==
    LET s == getVersionFromServer(reply)
    IN IF ~s.err THEN s ELSE extractVersionFromProxy(proxy, env)

(***************************************************************************)
(* The registry on disk.  A version directory holds: the scratch archives  *)
(* teleport-<version>.tar.gz and teleport-<version>.pkg, the extraction    *)
(* directory temp_extract, the canonical binary tsh (a regular file or a   *)
(* symbolic link into the bundle) and the bundle tsh.app.                  *)
(***************************************************************************)

\* a file: kind none | file | link; x: an executable bit is set; body: good (runs
\* "version --client" with exit 0), bad (complete, but the probe fails), partial
NoFile == [kind |-> "none", x |-> FALSE, body |-> "none"]
RegFile(x, body) == [kind |-> "file", x |-> x, body |-> body]
SymLink == [kind |-> "link", x |-> FALSE, body |-> "none"]

\* the bundle tsh.app: absent or a directory, exe is its Contents/MacOS/tsh
NoApp == [kind |-> "none", exe |-> NoFile]

NoDir == [exists |-> FALSE, tgz |-> FALSE, pkg |-> FALSE, temp |-> FALSE,
          tsh |-> NoFile, app |-> NoApp]
EmptyDir == [NoDir EXCEPT !.exists = TRUE]

\* the versions the model installs.  The registry maps each to its directory and
\* "" to baseDir itself, because filepath.Join(baseDir, "") is baseDir
Versions == {"16", "17.7.1"}

\* what os.Stat(<dir>/tsh) sees: a symbolic link is followed
StatTSH(d) ==
    IF d.tsh.kind = "link" THEN (IF d.app.kind = "dir" THEN d.app.exe ELSE NoFile)
    ELSE d.tsh

\* exec.Command(tshPath, "version", "--client").Run() returns nil
ProbeOK(file) == file.kind = "file" /\ file.x /\ file.body = "good"

\* verifyTSHBinary without the live probe: the faulty variant that C3 must tell
\* from the code
verifyTSHBinaryNoProbe(d) == StatTSH(d).kind = "file" /\ StatTSH(d).x

\* verifyTSHBinary: stat, executable bit, live probe
verifyTSHBinary(d) ==
    /\ StatTSH(d).kind = "file"
    /\ StatTSH(d).x
    /\ ProbeOK(StatTSH(d))

\* TSHInstaller.IsVersionInstalled: stat of <baseDir>/<version>/tsh, then verify
IsVersionInstalled(f, version) ==
    IF StatTSH(f[version]).kind = "none" THEN FALSE ELSE verifyTSHBinary(f[version])

\* Client.IsTSHVersionInstalled: stat, then the probe alone (running a file
\* without an executable bit fails)
IsTSHVersionInstalled(f, version) ==
    IF StatTSH(f[version]).kind = "none" THEN FALSE ELSE ProbeOK(StatTSH(f[version]))

\* os.MkdirAll(versionDir): creates baseDir and the version directory
MkdirAllVersion(f, version) ==
    [w \in DOMAIN f |->
        IF (w = version \/ w = "") /\ ~f[w].exists THEN EmptyDir ELSE f[w]]

\* os.RemoveAll(versionDir): for "" that is baseDir with every version in it
RemoveAllVersion(f, version) ==
    [w \in DOMAIN f |-> IF w = version \/ version = "" THEN NoDir ELSE f[w]]

\* the file that a write to <dir>/tsh lands in: os.Create follows a symbolic link
WriteTSH(d, file) ==
    IF d.tsh.kind = "link" THEN [d EXCEPT !.app = [kind |-> "dir", exe |-> file]]
    ELSE [d EXCEPT !.tsh = file]

(***************************************************************************)
(* TSHInstaller: one install attempt.  What the network and the package    *)
(* hold is an input of the attempt: o.stage is the step that fails ("ok":  *)
(* none), o.tree the extracted tree, o.works whether the packaged binary   *)
(* runs on this machine.                                                   *)
(***************************************************************************)

Stages == {"download_err",      \* GET fails, status is not 200, or os.Create fails
           "download_partial",  \* io.Copy to the scratch file fails
           "extract",           \* MkdirAll(temp_extract), extractTarGz or pkgutil fails
           "copy_mid",          \* the copy fails while the executable is written
           "chmod_dest",        \* os.Chmod in copyTSHToDestination fails
           "symlink",           \* os.Symlink fails
           "chmod",             \* os.Chmod in tryInstallPackage fails
           "ok"}

\* an extracted tree: bare is the regular file named tsh ("x": with an executable
\* bit), inTeleport: its path contains "teleport/tsh"; app is the directory tsh.app
\* ("empty": without Contents/MacOS/tsh, "x" / "nox": with it).  filepath.Walk
\* visits teleport/tsh before teleport/tsh.app
Tree(bare, inTeleport, app) == [bare |-> bare, inTeleport |-> inTeleport, app |-> app]
Trees == { Tree("none", FALSE, "none"),
           Tree("x", TRUE, "none"),
           Tree("nox", TRUE, "none"),
           Tree("x", FALSE, "none"),
           Tree("none", FALSE, "x"),
           Tree("none", FALSE, "empty"),
           Tree("x", TRUE, "x") }

Outcomes == [stage : Stages, tree : Trees, works : BOOLEAN]

\* the walk of findTSHInDirectory: the files named tsh it collects, in order
tshPaths(tree, os) ==
    (IF tree.bare = "x" \/ (tree.bare = "nox" /\ os = "darwin") THEN <<"bare">> ELSE <<>>)
    \o (IF tree.app = "x" \/ (tree.app = "nox" /\ os = "darwin") THEN <<"appexe">> ELSE <<>>)

\* findTSHInDirectory: "app" (the bundle), "bare" or "appexe" (a file), or "" (error)
findTSHInDirectory(tree, os) ==
    IF os = "darwin" /\ tree.app \in {"x", "nox"} THEN "app"
    ELSE IF os = "darwin" /\ tree.bare /= "none" /\ tree.inTeleport THEN "bare"
    ELSE IF tshPaths(tree, os) = <<>> THEN ""
    ELSE Head(tshPaths(tree, os))

\* the body of a binary copied completely from the package
Body(o) == IF o.works THEN "good" ELSE "bad"

\* copyTSHToDestination for a bundle: copyDirectory, os.Remove of the old tsh,
\* os.Symlink.  copyFile creates with mode 0666 and keeps the mode of a file
\* that exists; copyDirectory then sets the mode of the source
copyBundle(d, o) ==
    IF o.stage = "copy_mid"
    THEN [dir |-> [d EXCEPT !.app = [kind |-> "dir",
                                     exe |-> RegFile(d.app.exe.x, "partial")]],
          err |-> TRUE]
    ELSE LET copied == [d EXCEPT !.app = [kind |-> "dir",
                                          exe |-> RegFile(o.tree.app = "x", Body(o))],
                                 !.tsh = NoFile]
         IN IF o.stage = "symlink" THEN [dir |-> copied, err |-> TRUE]
            ELSE [dir |-> [copied EXCEPT !.tsh = SymLink], err |-> FALSE]

\* copyTSHToDestination for a file: copyFile to <dir>/tsh, then os.Chmod 0755
copyBinary(d, o) ==
    IF o.stage = "copy_mid"
    THEN [dir |-> WriteTSH(d, RegFile(StatTSH(d).x, "partial")), err |-> TRUE]
    ELSE IF o.stage = "chmod_dest"
    THEN [dir |-> WriteTSH(d, RegFile(StatTSH(d).x, Body(o))), err |-> TRUE]
    ELSE [dir |-> WriteTSH(d, RegFile(TRUE, Body(o))), err |-> FALSE]

copyTSHToDestination(d, found, o) ==
    IF found = "app" THEN copyBundle(d, o) ELSE copyBinary(d, o)

\* extractFromTarGz / extractFromPkg: temp_extract is created and, by the deferred
\* os.RemoveAll, gone again on every return
extractPackage(d, o, os) ==
    IF o.stage = "extract" THEN [dir |-> d, err |-> TRUE, at |-> "extract"]
    ELSE IF findTSHInDirectory(o.tree, os) = "" THEN [dir |-> d, err |-> TRUE, at |-> "find"]
    ELSE LET c == copyTSHToDestination(d, findTSHInDirectory(o.tree, os), o)
         IN [dir |-> c.dir, err |-> c.err, at |-> IF c.err THEN o.stage ELSE "ok"]

\* the scratch archive of an attempt
SetArchive(d, ext, there) ==
    IF ext = "pkg" THEN [d EXCEPT !.pkg = there] ELSE [d EXCEPT !.tgz = there]

\* os.Chmod(<dir>/tsh, 0755), following a symbolic link
ChmodTSH(d) ==
    IF d.tsh.kind = "link" THEN [d EXCEPT !.app.exe.x = TRUE] ELSE [d EXCEPT !.tsh.x = TRUE]

\* tryInstallPackage: download, extract and install, stat, chmod, remove the archive.
\* The archive is removed when extraction fails and after success, and on no other
\* return
tryInstallPackage(d, ext, o, os) ==
    IF o.stage = "download_err" THEN [dir |-> d, err |-> TRUE, at |-> "download_err"]
    ELSE IF o.stage = "download_partial"
    THEN [dir |-> SetArchive(d, ext, TRUE), err |-> TRUE, at |-> "download_partial"]
    ELSE LET e == extractPackage(SetArchive(d, ext, TRUE), o, os)
         IN IF e.err THEN [dir |-> SetArchive(e.dir, ext, FALSE), err |-> TRUE, at |-> e.at]
            ELSE IF StatTSH(e.dir).kind = "none"
            THEN [dir |-> SetArchive(e.dir, ext, FALSE), err |-> TRUE, at |-> "stat"]
            ELSE IF o.stage = "chmod" THEN [dir |-> e.dir, err |-> TRUE, at |-> "chmod"]
            ELSE [dir |-> SetArchive(ChmodTSH(e.dir), ext, FALSE), err |-> FALSE, at |-> "ok"]

(***************************************************************************)
(* TSHInstaller: InstallTSH and the registry operations.  InstallTSH makes *)
(* its two attempts one after the other; the model takes the first in the  *)
(* step that starts the call and, when the call goes on to the .pkg        *)
(* attempt, the second in the step that ends it.  No other call starts in  *)
(* between.  A step result r has r.next: "ok" (return nil), "fail" (return *)
(* the error) or "pkg" (go on to the .pkg attempt); r.tries: the formats   *)
(* downloaded; r.exFail: an attempt ended in a failed extraction.          *)
(***************************************************************************)

\* getPackageInfo: the tarball, for darwin and linux; an error for any other OS
getPackageInfo(version, os) ==
    IF os \in {"darwin", "linux"} THEN [err |-> FALSE, ext |-> "tar.gz"]
    ELSE [err |-> TRUE, ext |-> ""]

\* getPkgPackageInfo: the macOS installer package; it never returns an error
getPkgPackageInfo(version) == [err |-> FALSE, ext |-> "pkg"]

\* getPkgPackageInfo, the name of the package: the leading "v" is trimmed,
\* versionParts[0] is the text before the first ".", and it is compared with "17"
\* as a string
pkgMajor(version) ==
    IF Index(TrimPrefix(version, "v"), ".") < 0 THEN TrimPrefix(version, "v")
    ELSE SubSeq(TrimPrefix(version, "v"), 1, Index(TrimPrefix(version, "v"), "."))

pkgPackageName(version) ==
    IF StringGE(pkgMajor(version), "17", 1)
    THEN "teleport-" \o TrimPrefix(version, "v") \o ".pkg"
    ELSE "tsh-" \o TrimPrefix(version, "v") \o ".pkg"

\* InstallTSH with the .pkg attempt on every operating system: the faulty variant
\* that C23 must tell from the code
AfterTarballAlways(os) == "pkg"

\* what InstallTSH does after a failed tarball attempt
AfterTarball(os) == IF os = "darwin" THEN "pkg" ELSE "fail"

\* InstallTSH up to the end of the tarball attempt: MkdirAll of the version
\* directory, getPackageInfo, tryInstallPackage
InstallTSH(f, version, o, os) ==
    LET f0 == MkdirAllVersion(f, version)
        info == getPackageInfo(version, os)
        t == tryInstallPackage(f0[version], info.ext, o, os)
        f1 == [f0 EXCEPT ![version] = t.dir]
    IN IF info.err
       THEN [fs |-> f0, next |-> AfterTarball(os), tries |-> <<>>, exFail |-> FALSE]
       ELSE IF ~t.err
       THEN [fs |-> f1, next |-> "ok", tries |-> <<info.ext>>, exFail |-> FALSE]
       ELSE [fs |-> f1, next |-> AfterTarball(os), tries |-> <<info.ext>>,
             exFail |-> (t.at = "extract")]

\* InstallTSH from "Second try for macOS" on: getPkgPackageInfo, tryInstallPackage,
\* and the error return when that fails too
InstallTSHPkg(f, version, o, os) ==
    LET info == getPkgPackageInfo(version)
        t == tryInstallPackage(f[version], info.ext, o, os)
    IN [fs |-> [f EXCEPT ![version] = t.dir], next |-> IF t.err THEN "fail" ELSE "ok",
        tries |-> <<info.ext>>, exFail |-> (t.at = "extract")]

\* a call that returns without touching the registry
NoInstall(f, ok) ==
    [fs |-> f, next |-> IF ok THEN "ok" ELSE "fail", tries |-> <<>>, exFail |-> FALSE]

\* AutoInstallForEnvironment without its check: the faulty variant that C1 must
\* tell from the code
AutoInstallForEnvironmentUnchecked(f, version, o, os) == InstallTSH(f, version, o, os)

\* AutoInstallForEnvironment: nothing to do when the version is installed
AutoInstallForEnvironment(f, version, o, os) ==
    IF IsVersionInstalled(f, version) THEN NoInstall(f, TRUE)
    ELSE InstallTSH(f, version, o, os)

\* Handler.InstallTSH: the same check in front of installer.InstallTSH
HandlerInstallTSH(f, version, o, os) ==
    IF IsVersionInstalled(f, version) THEN NoInstall(f, TRUE)
    ELSE InstallTSH(f, version, o, os)

\* Handler.AutoInstallTSH and Client.InstallTSHVersion: installer.InstallTSH, unguarded
HandlerAutoInstallTSH(f, version, o, os) == InstallTSH(f, version, o, os)
ClientInstallTSHVersion(f, version, o, os) == InstallTSH(f, version, o, os)

\* UninstallVersion: an error when the version directory does not exist, else RemoveAll
UninstallVersion(f, version) ==
    IF ~f[version].exists THEN NoInstall(f, FALSE)
    ELSE [NoInstall(f, TRUE) EXCEPT !.fs = RemoveAllVersion(f, version)]

\* the subdirectories os.ReadDir(baseDir) lists that can hold a tsh: the version
\* directories (temp_extract and tsh.app of baseDir hold no entry named tsh)
SubDirs(f) == {w \in DOMAIN f : w /= "" /\ f[w].exists}

\* GetInstalledVersions without the verification of each entry: the faulty variant
\* that C4 must tell from the code
GetInstalledVersionsUnverified(f) ==
    IF ~f[""].exists THEN [list |-> {}, isNil |-> FALSE, err |-> FALSE]
    ELSE [list |-> SubDirs(f), isNil |-> SubDirs(f) = {}, err |-> FALSE]

\* GetInstalledVersions: [] when baseDir is missing; else the entries that are
\* directories and verified, appended to a nil slice
GetInstalledVersions(f) ==
    IF ~f[""].exists THEN [list |-> {}, isNil |-> FALSE, err |-> FALSE]
    ELSE LET found == {w \in SubDirs(f) : IsVersionInstalled(f, w)}
         IN [list |-> found, isNil |-> found = {}, err |-> FALSE]

(***************************************************************************)
(* Client.EnsureTSHVersion and the configuration it reads and updates      *)
(***************************************************************************)

\* Manager.UpdateEnvironmentTSHVersion: set tsh_version of one environment
UpdateEnvironmentTSHVersion(cfg, envName, tshVersion) ==
    [cfg EXCEPT ![envName].tsh_version = tshVersion]

\* the version EnsureTSHVersion works on: the pinned one, else the detected one
\* (detected: what DetectTSHVersion returns for the proxy of the environment);
\* err when the environment is unknown or nothing is pinned and detection fails
RequiredVersion(cfg, env, detected) ==
    IF env \notin DOMAIN cfg THEN Err
    ELSE IF cfg[env].tsh_version /= "" THEN Ok(cfg[env].tsh_version)
    ELSE detected

\* the configuration EnsureTSHVersion leaves: a detected version is stored
EnsureConfig(cfg, env, need) ==
    IF env \in DOMAIN cfg /\ cfg[env].tsh_version = "" /\ ~need.err
    THEN UpdateEnvironmentTSHVersion(cfg, env, need.version)
    ELSE cfg

\* EnsureTSHVersion: once the version is known (need), install it when
\* IsVersionInstalled says it is missing
EnsureTSHVersion(need, f, o, os) ==
    IF need.err THEN NoInstall(f, FALSE)
    ELSE IF IsVersionInstalled(f, need.version) THEN NoInstall(f, TRUE)
    ELSE InstallTSH(f, need.version, o, os)

(***************************************************************************)
(* Client: session directories and the effective user                      *)
(***************************************************************************)

\* the elements of a slash-separated path, from position i on, cur being the
\* element read so far
RECURSIVE PathElements(_, _, _)
PathElements(s, i, cur) ==
    IF i > Len(s) THEN <<cur>>
    ELSE IF At(s, i) = "/" THEN <<cur>> \o PathElements(s, i + 1, "")
    ELSE PathElements(s, i + 1, cur \o At(s, i))

\* filepath.Join onto a rooted directory: filepath.Clean drops empty and "."
\* elements, and ".." drops the element before it (at the root, nothing)
RECURSIVE JoinClean(_, _)
JoinClean(dir, elems) ==
    IF elems = <<>> THEN dir
    ELSE JoinClean(
             IF Head(elems) \in {"", "."} THEN dir
             ELSE IF Head(elems) = ".."
                  THEN (IF dir = <<>> THEN dir ELSE SubSeq(dir, 1, Len(dir) - 1))
             ELSE Append(dir, Head(elems)),
             Tail(elems))

\* os.UserHomeDir() of the model, as the elements of its path
HomeDir == <<"home", "u">>

\* getSessionDir: filepath.Join(homeDir, ".tkube", "sessions", env)
getSessionDir(env) ==
    JoinClean(HomeDir \o <<".tkube", "sessions">>, PathElements(env, 1, ""))

\* filepath.Base: the last element of a path, "." for the empty path, "/" for a
\* path of slashes only
RECURSIVE LastElement(_)
LastElement(elems) ==
    IF elems = <<>> THEN ""
    ELSE IF elems[Len(elems)] /= "" THEN elems[Len(elems)]
    ELSE LastElement(SubSeq(elems, 1, Len(elems) - 1))

Base(path) ==
    IF path = "" THEN "."
    ELSE IF LastElement(PathElements(path, 1, "")) = "" THEN "/"
    ELSE LastElement(PathElements(path, 1, ""))

\* getSystemUser: $USER, else the base name of the home directory, else "unknown".
\* home: what os.UserHomeDir returns, [err, dir]
getSystemUser(user, home) ==
    IF user /= "" THEN user
    ELSE IF ~home.err /\ Base(home.dir) /= "" THEN Base(home.dir)
    ELSE "unknown"

\* getEffectiveUser with the sources in the wrong order, the default user before
\* the environment's own: the faulty variant that C15 must tell from the code
getEffectiveUserDefaultFirst(cfg, env, user, home) ==
    IF cfg.err THEN getSystemUser(user, home)
    ELSE IF cfg.default_user /= "" THEN cfg.default_user
    ELSE IF env \in DOMAIN cfg.envs /\ cfg.envs[env].user /= "" THEN cfg.envs[env].user
    ELSE getSystemUser(user, home)

\* getEffectiveUser.  cfg: what configManager.Load returns, [err, envs, default_user]
getEffectiveUser(cfg, env, user, home) ==
    IF cfg.err THEN getSystemUser(user, home)
    ELSE IF env \in DOMAIN cfg.envs /\ cfg.envs[env].user /= "" THEN cfg.envs[env].user
    ELSE IF cfg.default_user /= "" THEN cfg.default_user
    ELSE getSystemUser(user, home)

(***************************************************************************)
(* Client.GetSessionInfo: reading the output of "tsh status".  The output  *)
(* is the sequence of its lines, as strings.Split(outputStr, "\n") gives.  *)
(***************************************************************************)

WhiteSpace == {" ", "\t", "\r"}

\* strings.TrimSpace
RECURSIVE TrimLeft(_)
TrimLeft(s) ==
    IF Len(s) > 0 /\ At(s, 1) \in WhiteSpace THEN TrimLeft(SubSeq(s, 2, Len(s))) ELSE s

RECURSIVE TrimRight(_)
TrimRight(s) ==
    IF Len(s) > 0 /\ At(s, Len(s)) \in WhiteSpace
    THEN TrimRight(SubSeq(s, 1, Len(s) - 1)) ELSE s

TrimSpace(s) == TrimLeft(TrimRight(s))

\* strings.Split(s, sep)[1] for an s that contains sep: the text between the first
\* occurrence of sep and the second one, or the end
SecondPart(s, sep) ==
    LET rest == SubSeq(s, Index(s, sep) + Len(sep) + 1, Len(s))
    IN IF Contains(rest, sep) THEN SubSeq(rest, 1, Index(rest, sep)) ELSE rest

\* the SessionInfo that GetSessionInfo starts from and returns on every early return
EmptyInfo == [IsAuthenticated |-> FALSE, ValidUntil |-> "", TimeRemaining |-> "",
              IsExpired |-> FALSE]

\* the marker test: strings.Contains(outputStr, "logged in") or "Valid until"
HasMarker(lines) ==
    \E i \in 1..Len(lines) : Contains(lines[i], "logged in") \/ Contains(lines[i], "Valid until")

\* the fields read from timeInfo, the trimmed text after "Valid until:"
infoOfLine(timeInfo) ==
    IF Contains(timeInfo, "EXPIRED")
    THEN [IsAuthenticated |-> TRUE, ValidUntil |-> timeInfo, TimeRemaining |-> "EXPIRED",
          IsExpired |-> TRUE]
    ELSE [IsAuthenticated |-> TRUE,
          ValidUntil |-> IF Index(timeInfo, " [") > 0
                         THEN TrimSpace(SubSeq(timeInfo, 1, Index(timeInfo, " [")))
                         ELSE timeInfo,
          TimeRemaining |-> IF /\ Contains(timeInfo, "[valid for ")
                               /\ Contains(timeInfo, "]")
                               /\ Index(timeInfo, "[valid for ") + Len("[valid for ")
                                      < Index(timeInfo, "]")
                            THEN SubSeq(timeInfo,
                                        Index(timeInfo, "[valid for ") + Len("[valid for ") + 1,
                                        Index(timeInfo, "]"))
                            ELSE "",
          IsExpired |-> FALSE]

\* the parse reading the last "Valid until:" line in place of the first: the faulty
\* variant that C16 must tell from the code
parseSessionInfoLastLine(lines) ==
    LET hits == {i \in 1..Len(lines) : Contains(TrimSpace(lines[i]), "Valid until:")}
    IN IF ~HasMarker(lines) THEN EmptyInfo
       ELSE IF hits = {} THEN [EmptyInfo EXCEPT !.IsAuthenticated = TRUE]
       ELSE infoOfLine(TrimSpace(SecondPart(
                TrimSpace(lines[CHOOSE i \in hits : \A j \in hits : i >= j]),
                "Valid until:")))

\* GetSessionInfo from outputStr on: no marker, not authenticated; else the first
\* line that contains "Valid until:" is read, and the loop breaks
parseSessionInfo(lines) ==
    LET hits == {i \in 1..Len(lines) : Contains(TrimSpace(lines[i]), "Valid until:")}
    IN IF ~HasMarker(lines) THEN EmptyInfo
       ELSE IF hits = {} THEN [EmptyInfo EXCEPT !.IsAuthenticated = TRUE]
       ELSE infoOfLine(TrimSpace(SecondPart(
                TrimSpace(lines[CHOOSE i \in hits : \A j \in hits : i <= j]),
                "Valid until:")))

(***************************************************************************)
(* Client: the environment-scoped operations.  cfg is the configuration, f *)
(* the registry, sess the session directories (one record per directory:   *)
(* whether it exists, and the credentials the tsh run with TELEPORT_HOME   *)
(* set to it finds there).  A tsh path is the version it belongs to, since *)
(* GetTSHPath(version) is <baseDir>/<version>/tsh; "" is no path.          *)
(***************************************************************************)

NoSession == [exists |-> FALSE, cred |-> "none"]

\* what a subprocess returns: exit status and combined output
NoOutput == [ran |-> FALSE, exit |-> 0, lines |-> <<>>]
Output(exit, lines) == [ran |-> TRUE, exit |-> exit, lines |-> lines]

\* "tsh status" with the credentials of its TELEPORT_HOME; run = "fail" is a run
\* that ends with an error of its own (proxy unreachable)
StatusOutput(cred, run) ==
    IF run = "fail" THEN Output(1, <<"ERROR: connection refused">>)
    ELSE IF cred = "none" THEN Output(1, <<"ERROR: Not logged in.">>)
    ELSE Output(0, <<"> Profile URL: https://proxy:443",
                     "  Valid until: 2099-01-01 [valid for 45m0s]">>)

\* "tsh logout" with the credentials of its TELEPORT_HOME
LogoutOutput(cred, run) ==
    IF run = "fail" THEN Output(1, <<"ERROR: permission denied">>)
    ELSE IF cred = "none" /\ run = "absent" THEN Output(1, <<"ERROR: Not logged in.">>)
    ELSE IF cred = "none" /\ run = "absent2" THEN Output(1, <<"already logged out">>)
    ELSE Output(0, <<"All users logged out.">>)

\* one launch of the client binary: the command, the binary and TELEPORT_HOME
Launch(cmd, v, home) == [cmd |-> cmd, v |-> v, home |-> home]

\* what an operation returns and leaves.  ok: true / nil error; checks: the versions
\* for which IsVersionInstalled returned true in the operation; detected: the
\* environments for which DetectTSHVersion was called; login: how the run of
\* "tsh login" in it ended ("none": there was none); auto: the auto_login setting
\* of the configuration it loaded ("none": it reads none)
Result(cfg, f, sess) ==
    [ok |-> FALSE, info |-> EmptyInfo, launches |-> <<>>, checks |-> {},
     status |-> NoOutput, logout |-> NoOutput, detected |-> {}, login |-> "none",
     auto |-> "none", cfg |-> cfg, fs |-> f, sess |-> sess]

\* a second operation run after a first one, in the state the first one left
AndThen(r1, r2) ==
    [r2 EXCEPT !.launches = r1.launches \o r2.launches,
               !.checks = r1.checks \cup r2.checks,
               !.detected = r1.detected \cup r2.detected,
               !.status = IF r2.status.ran THEN r2.status ELSE r1.status,
               !.login = IF r2.login /= "none" THEN r2.login ELSE r1.login]

\* Client.getRequiredTSHVersion
getRequiredTSHVersion(cfg, env) ==
    IF env \in DOMAIN cfg THEN cfg[env].tsh_version ELSE ""

\* getTSHPath without the check of the registry: the faulty variant that C18 must
\* tell from the code
getTSHPathUnchecked(cfg, f, env) ==
    IF env \notin DOMAIN cfg \/ getRequiredTSHVersion(cfg, env) = ""
    THEN [path |-> "", checks |-> {}]
    ELSE [path |-> cfg[env].tsh_version, checks |-> {}]

\* Client.getTSHPath: the path of the pinned version when IsVersionInstalled is true
getTSHPath(cfg, f, env) ==
    IF env \notin DOMAIN cfg \/ getRequiredTSHVersion(cfg, env) = ""
    THEN [path |-> "", checks |-> {}]
    ELSE IF IsVersionInstalled(f, cfg[env].tsh_version)
    THEN [path |-> cfg[env].tsh_version, checks |-> {cfg[env].tsh_version}]
    ELSE [path |-> "", checks |-> {}]

\* Client.ensureSessionDir: MkdirAll of the session directory; mk: a missing
\* directory can be created (and os.UserHomeDir answers)
ensureSessionDir(sess, env, mk) ==
    IF sess[getSessionDir(env)].exists THEN [err |-> FALSE, sess |-> sess]
    ELSE IF mk THEN [err |-> FALSE, sess |-> [sess EXCEPT ![getSessionDir(env)].exists = TRUE]]
    ELSE [err |-> TRUE, sess |-> sess]

\* Client.EnsureTSHVersion as the operations call it.  detected: what
\* DetectTSHVersion returns for the proxy of env; inst: for each version, what
\* InstallTSH does in the registry the operation starts in (an operation calls it
\* at most once: what follows an installation finds the version installed)
ensureVersion(cfg, f, sess, env, detected, inst) ==
    LET need == RequiredVersion(cfg, env, detected)
        r == IF need.err THEN NoInstall(f, FALSE)
             ELSE IF IsVersionInstalled(f, need.version) THEN NoInstall(f, TRUE)
             ELSE inst[need.version]
    IN [Result(EnsureConfig(cfg, env, need), r.fs, sess) EXCEPT
           !.ok = ~need.err /\ r.next = "ok",
           !.checks = IF ~need.err /\ IsVersionInstalled(f, need.version)
                      THEN {need.version} ELSE {},
           !.detected = IF env \in DOMAIN cfg /\ cfg[env].tsh_version = ""
                        THEN {env} ELSE {}]

\* the result of a status run with the exit status ignored: the faulty variant
\* that C17 must tell from the code
statusMarkerOnly(out) == HasMarker(out.lines)

\* the result of a status run: the markers count only when the run exits with 0
statusSaysAuthenticated(out) == out.exit = 0 /\ HasMarker(out.lines)

\* from ensureSessionDir on, common to the three status operations: the status run
\* in the session directory of env; withInfo: GetSessionInfo parses the output
statusRun(r, path, env, mk, run, withInfo) ==
    LET e == ensureSessionDir(r.sess, env, mk)
        out == StatusOutput(e.sess[getSessionDir(env)].cred, run)
    IN IF e.err THEN r
       ELSE [r EXCEPT !.sess = e.sess,
                      !.launches = <<Launch("status", path, getSessionDir(env))>>,
                      !.status = out,
                      !.ok = statusSaysAuthenticated(out),
                      !.info = IF withInfo /\ statusSaysAuthenticated(out)
                               THEN parseSessionInfo(out.lines) ELSE EmptyInfo]

\* Client.CheckAuthenticationStatus (withInfo = FALSE) and Client.GetSessionInfo
\* (withInfo = TRUE): no installation, getTSHPath, IsVersionInstalled once more
CheckStatus(cfg, f, sess, env, mk, run, withInfo) ==
    LET p == getTSHPath(cfg, f, env)
        r == [Result(cfg, f, sess) EXCEPT !.checks = p.checks]
    IN IF p.path = "" THEN r
       ELSE IF ~IsVersionInstalled(f, getRequiredTSHVersion(cfg, env)) THEN r
       ELSE statusRun([r EXCEPT !.checks = @ \cup {getRequiredTSHVersion(cfg, env)}],
                      p.path, env, mk, run, withInfo)

CheckAuthenticationStatus(cfg, f, sess, env, mk, run) ==
    CheckStatus(cfg, f, sess, env, mk, run, FALSE)

GetSessionInfo(cfg, f, sess, env, mk, run) ==
    CheckStatus(cfg, f, sess, env, mk, run, TRUE)

\* Client.IsAuthenticatedWithEnv: EnsureTSHVersion first, then as above
IsAuthenticatedWithEnv(cfg, f, sess, env, detected, inst, mk, run) ==
    LET en == ensureVersion(cfg, f, sess, env, detected, inst)
        p == getTSHPath(en.cfg, en.fs, env)
        r == [en EXCEPT !.ok = FALSE, !.checks = @ \cup p.checks]
    IN IF ~en.ok THEN r
       ELSE IF p.path = "" THEN r
       ELSE statusRun(r, p.path, env, mk, run, FALSE)

\* LoginWithEnv and KubeLoginWithEnv: EnsureTSHVersion, getTSHPath,
\* ensureSessionDir, the run of cmd; a login that succeeds leaves valid credentials
\* in the session directory
RunWithEnv(cmd, cfg, f, sess, env, detected, inst, mk, run) ==
    LET en == ensureVersion(cfg, f, sess, env, detected, inst)
        p == getTSHPath(en.cfg, en.fs, env)
        e == ensureSessionDir(sess, env, mk)
        r == [en EXCEPT !.ok = FALSE, !.checks = @ \cup p.checks]
    IN IF ~en.ok THEN r
       ELSE IF p.path = "" THEN r
       ELSE IF e.err THEN r
       ELSE [r EXCEPT !.launches = <<Launch(cmd, p.path, getSessionDir(env))>>,
                      !.ok = (run = "run"),
                      !.login = IF cmd /= "login" THEN "none"
                                ELSE IF run = "run" THEN "ok" ELSE "fail",
                      !.sess = IF cmd = "login" /\ run = "run"
                               THEN [e.sess EXCEPT ![getSessionDir(env)].cred = "valid"]
                               ELSE e.sess]

LoginWithEnv(cfg, f, sess, env, detected, inst, mk, run) ==
    RunWithEnv("login", cfg, f, sess, env, detected, inst, mk, run)

KubeLoginWithEnv(cfg, f, sess, env, detected, inst, mk, run) ==
    RunWithEnv("kube login", cfg, f, sess, env, detected, inst, mk, run)

\* Client.GetClusters: GetEnvironment first, then as a kube login, with "kube ls"
GetClusters(cfg, f, sess, env, detected, inst, mk, run) ==
    IF env \notin DOMAIN cfg THEN Result(cfg, f, sess)
    ELSE RunWithEnv("kube ls", cfg, f, sess, env, detected, inst, mk, run)

\* the error LogoutWithEnv returns after the run, with no tolerance for a session
\* that is already absent: the faulty variant that C19 must tell from the code
logoutFailedStrict(out) == out.exit /= 0

\* the error LogoutWithEnv returns after the run: a failure that says the session
\* is already absent is none
logoutFailed(out) ==
    /\ out.exit /= 0
    /\ ~\E i \in 1..Len(out.lines) :
           Contains(out.lines[i], "already logged out") \/ Contains(out.lines[i], "Not logged in")

\* Client.LogoutWithEnv: getTSHPath, ensureSessionDir, "tsh logout"; a logout that
\* exits with 0 leaves no credentials in the session directory
LogoutWithEnv(cfg, f, sess, env, mk, run) ==
    LET p == getTSHPath(cfg, f, env)
        e == ensureSessionDir(sess, env, mk)
        out == LogoutOutput(e.sess[getSessionDir(env)].cred, run)
        r == [Result(cfg, f, sess) EXCEPT !.checks = p.checks]
    IN IF p.path = "" THEN r
       ELSE IF e.err THEN r
       ELSE [r EXCEPT !.launches = <<Launch("logout", p.path, getSessionDir(env))>>,
                      !.logout = out,
                      !.ok = ~logoutFailed(out),
                      !.sess = IF out.exit = 0
                               THEN [e.sess EXCEPT ![getSessionDir(env)].cred = "none"]
                               ELSE e.sess]

\* Handler.Logout for all environments (env = ""): LogoutWithEnv for each one, the
\* errors printed and dropped
RECURSIVE LogoutEach(_, _, _, _, _, _)
LogoutEach(envs, cfg, f, sess, mk, run) ==
    IF envs = {} THEN [Result(cfg, f, sess) EXCEPT !.ok = TRUE]
    ELSE LET e == CHOOSE x \in envs : TRUE
             r == LogoutWithEnv(cfg, f, sess, e, mk, run)
         IN [AndThen(r, LogoutEach(envs \ {e}, cfg, f, r.sess, mk, run)) EXCEPT
                !.logout = r.logout]

\* Handler.Logout: all environments, or the one named when it is configured
HandlerLogout(cfg, f, sess, env, mk, run) ==
    IF env = "" THEN LogoutEach(DOMAIN cfg, cfg, f, sess, mk, run)
    ELSE IF env \notin DOMAIN cfg THEN Result(cfg, f, sess)
    ELSE LogoutWithEnv(cfg, f, sess, env, mk, run)

\* the login made whenever the check before it says not authenticated, whatever
\* auto_login is: the faulty variant that C29 must tell from the code
loginAlways(env, detected, inst, mk, auto, run, au) ==
    IF au.ok THEN au
    ELSE AndThen(au, LoginWithEnv(au.cfg, au.fs, au.sess, env, detected, inst, mk, run))

\* the login that ConnectToCluster and GetClustersForCompletion make when the
\* check before it (au) says not authenticated; auto: a login is attempted
loginUnless(env, detected, inst, mk, auto, run, au) ==
    IF au.ok \/ ~auto THEN au
    ELSE AndThen(au, LoginWithEnv(au.cfg, au.fs, au.sess, env, detected, inst, mk, run))

\* ConnectToCluster up to the authentication check: the version detected and stored
\* when none is pinned, the installation when it is missing and the user says yes,
\* IsVersionInstalled once more; ok: the connection goes on
connectInstall(cfg, f, sess, env, detected, inst, yes) ==
    LET unset == cfg[env].tsh_version = ""
        cfg1 == IF unset /\ ~detected.err /\ detected.version /= ""
                THEN UpdateEnvironmentTSHVersion(cfg, env, detected.version) ELSE cfg
        v == cfg1[env].tsh_version
        made == IF v = "" \/ IsVersionInstalled(f, v) THEN NoInstall(f, TRUE)
                ELSE IF yes THEN inst[v]
                ELSE NoInstall(f, FALSE)
        verified == v /= "" /\ IsVersionInstalled(made.fs, v)
    IN [Result(cfg1, made.fs, sess) EXCEPT
           !.detected = IF unset THEN {env} ELSE {},
           !.checks = IF verified THEN {v} ELSE {},
           !.ok = made.next = "ok" /\ (v = "" \/ verified)]

\* ConnectToCluster from the login on: the kube login when authenticated
connectKube(env, detected, inst, mk, run, lg) ==
    IF ~lg.ok THEN lg
    ELSE AndThen(lg, KubeLoginWithEnv(lg.cfg, lg.fs, lg.sess, env, detected, inst, mk, run))

\* ConnectToCluster from the authentication check on
connectCheck(env, detected, inst, mk, auto, runs, r0) ==
    IF ~r0.ok THEN r0
    ELSE connectKube(env, detected, inst, mk, runs.kube,
             loginUnless(env, detected, inst, mk, auto, runs.login,
                 AndThen(r0, IsAuthenticatedWithEnv(r0.cfg, r0.fs, r0.sess, env, detected,
                                                    inst, mk, runs.status))))

\* Handler.ConnectToCluster.  yes: the user accepts the installation; auto: the
\* auto_login setting; runs: how the status, login and kube login runs end
ConnectToCluster(cfg, f, sess, env, detected, inst, mk, yes, auto, runs) ==
    IF env \notin DOMAIN cfg THEN Result(cfg, f, sess)
    ELSE [connectCheck(env, detected, inst, mk, auto, runs,
                       connectInstall(cfg, f, sess, env, detected, inst, yes))
             EXCEPT !.auto = IF auto THEN "on" ELSE "off"]

\* GetClustersForCompletion up to the status check: the version detected and stored
\* when none is pinned, no installation; ok: a tsh path is there
completionVersion(cfg, f, sess, env, detected) ==
    LET need == RequiredVersion(cfg, env, detected)
        cfg1 == EnsureConfig(cfg, env, need)
        installed == ~need.err /\ IsVersionInstalled(f, need.version)
    IN [Result(cfg1, f, sess) EXCEPT
           !.detected = IF cfg[env].tsh_version = "" THEN {env} ELSE {},
           !.checks = IF installed THEN {need.version} ELSE {},
           !.ok = installed /\ getTSHPath(cfg1, f, env).path /= ""]

\* GetClustersForCompletion from the login on: ensureSessionDir and "kube ls" with
\* the tsh path of the environment
completionList(env, mk, run, lg) ==
    IF ~lg.ok \/ ensureSessionDir(lg.sess, env, mk).err THEN [lg EXCEPT !.ok = FALSE]
    ELSE [lg EXCEPT !.sess = ensureSessionDir(lg.sess, env, mk).sess,
                    !.launches = @ \o <<Launch("kube ls", getRequiredTSHVersion(lg.cfg, env),
                                               getSessionDir(env))>>,
                    !.ok = (run = "run")]

\* GetClustersForCompletion from the status check on
completionCheck(env, detected, inst, mk, runs, r0) ==
    IF ~r0.ok THEN r0
    ELSE completionList(env, mk, runs.kube,
             loginUnless(env, detected, inst, mk, TRUE, runs.login,
                 AndThen(r0, CheckAuthenticationStatus(r0.cfg, r0.fs, r0.sess, env, mk,
                                                       runs.status))))

\* Client.GetClustersForCompletion
GetClustersForCompletion(cfg, f, sess, env, detected, inst, mk, runs) ==
    IF env \notin DOMAIN cfg THEN Result(cfg, f, sess)
    ELSE completionCheck(env, detected, inst, mk, runs,
                         completionVersion(cfg, f, sess, env, detected))

\* AutoDetectAndUpdateTSHVersions that detects for the pinned environments too: the
\* faulty variant that C20 must tell from the code
AutoDetectAndUpdateAll(cfg, f, sess, dets) ==
    [Result([e \in DOMAIN cfg |->
                IF ~dets[e].err /\ dets[e].version /= ""
                THEN [cfg[e] EXCEPT !.tsh_version = dets[e].version] ELSE cfg[e]],
            f, sess) EXCEPT !.ok = TRUE, !.detected = DOMAIN cfg]

\* Manager.AutoDetectAndUpdateTSHVersions (dets: what DetectTSHVersion returns for
\* the proxy of each environment): a pinned environment is skipped, a detected
\* non-empty version is stored
AutoDetectAndUpdateTSHVersions(cfg, f, sess, dets) ==
    [Result([e \in DOMAIN cfg |->
                IF cfg[e].tsh_version = "" /\ ~dets[e].err /\ dets[e].version /= ""
                THEN [cfg[e] EXCEPT !.tsh_version = dets[e].version] ELSE cfg[e]],
            f, sess) EXCEPT
        !.ok = TRUE, !.detected = {e \in DOMAIN cfg : cfg[e].tsh_version = ""}]

(***************************************************************************)
(* Inputs                                                                  *)
(***************************************************************************)

\* replies of GET https://<proxy>/webapi/ping
Reply(ok, sv, v, b) == [ok |-> ok, server_version |-> sv, version |-> v, build |-> b]
NoReply == Reply(FALSE, "", "", "")
Replies == { NoReply,
             Reply(TRUE, "v17.7.1", "16.0.0", ""),
             Reply(TRUE, "", "teleport-teleport-14.0.0", "tsh-13"),
             Reply(TRUE, "", "", "tsh-v13.1"),
             Reply(TRUE, "v", "", ""),
             Reply(TRUE, "", "", "") }

\* a request to https:///webapi/ping has no host: for the empty proxy the query fails
RepliesOf(proxy) == IF proxy = "" THEN {NoReply} ELSE Replies

Proxies == { "",
             "teleport.prod.env:443",
             "teleport-v14.prod.company.com:443",
             "teleport14.test.company.com:443",
             "tsh-tsh-14.0.0.test.com:443" }

\* the variables the model sets, and the values it sets them to
EnvNames == { "TELEPORT_VERSION", "TSH_VERSION",
              "TELEPORT_PROD_ENV_443_TSH_VERSION", "_TELEPORT_VERSION" }
EnvValues == { "", "v15.0.0", "teleport-teleport-14.0.0", "v" }

\* the trees the packages of the model extract to: nothing named tsh, the bare
\* binary teleport/tsh, the bundle teleport/tsh.app
PackagedTrees == { Tree("none", FALSE, "none"), Tree("x", TRUE, "none"),
                   Tree("none", FALSE, "x") }

\* the outcomes of an attempt the model draws: the tree and the binary are read
\* only once the archive is extracted, a step that the found shape does not run
\* cannot fail, a binary that runs is drawn for the attempts no step of which
\* fails, a bundle for darwin, and one outcome where no package exists
Applicable(o, os) ==
    LET found == findTSHInDirectory(o.tree, os)
    IN /\ o.tree \in PackagedTrees
       /\ os /= "darwin" => o.tree.app = "none"
       /\ os \notin {"darwin", "linux"} => o.stage = "download_err"
       /\ IF o.stage \in {"download_err", "download_partial", "extract"}
          THEN o.tree = Tree("none", FALSE, "none") /\ ~o.works
          ELSE /\ found = "" => (o.stage = "ok" /\ ~o.works)
               /\ found = "app" => o.stage /= "chmod_dest"
               /\ found \in {"bare", "appexe"} => o.stage /= "symlink"
               /\ o.stage /= "ok" => ~o.works

OutcomesOn(os) == {o \in Outcomes : Applicable(o, os)}

\* config.json: prod pins its version, dev leaves it to detection
Envs == {"prod", "dev"}
InitConfig ==
    [e \in Envs |->
        IF e = "prod" THEN [proxy |-> "teleport.prod.env:443", tsh_version |-> "17.7.1"]
        ELSE [proxy |-> "teleport-v16.dev.env:443", tsh_version |-> ""]]
\* the replies the proxies of the configuration give
ConfigReplies == { NoReply, Reply(TRUE, "v17.7.1", "", "") }

(***************************************************************************)
(* State machine                                                           *)
(***************************************************************************)

\* the calls that change the registry in one run of the model
MaxCalls == 2

NoDet == [called |-> FALSE, proxy |-> "", reply |-> NoReply, version |-> "", err |-> FALSE]

\* the record of a finished call.  pre: the version was verified-installed when
\* the call started; fresh: its directory was missing or empty then; same / regSame:
\* the call left the directory / the registry as it found it; prevDl: the downloads
\* of the call just before, when that was an ensure-installed call for the same
\* version, else -1
NoCall == [op |-> "none", kind |-> "none", v |-> "", ok |-> TRUE, tries |-> <<>>,
           exFail |-> FALSE, pre |-> FALSE, fresh |-> FALSE, same |-> TRUE,
           regSame |-> TRUE, prevDl |-> -1, yes |-> FALSE, list |-> {}, isNil |-> FALSE]

Idle == [active |-> FALSE, op |-> "none", kind |-> "none", v |-> "", tries |-> <<>>,
         exFail |-> FALSE, pre |-> FALSE, fresh |-> FALSE, prevDl |-> -1,
         before |-> [w \in Versions \cup {""} |-> NoDir]]

\* the session directories of the configured environments, none created yet
SessionDirs == {getSessionDir(e) : e \in Envs}
NoSessions == [d \in SessionDirs |-> NoSession]

\* the record of the last client operation.  again: the operation before it was a
\* LogoutWithEnv for the same environment that succeeded
NoClientCall ==
    [op |-> "none", env |-> "", ok |-> FALSE, info |-> EmptyInfo, launches |-> <<>>,
     checks |-> {}, status |-> NoOutput, logout |-> NoOutput, detected |-> {},
     login |-> "none", auto |-> "none", again |-> FALSE]

\* no function call recorded
NoPure == [fn |-> "none", in |-> "", done |-> FALSE, out |-> ""]

Init ==
    /\ environ = [n \in EnvNames |-> ""]
    /\ det = NoDet
    /\ goos \in {"linux", "darwin", "windows"}
    /\ fs = [w \in Versions \cup {""} |-> NoDir]
    /\ config = InitConfig
    /\ last = NoCall
    /\ call = Idle
    /\ calls = 0
    /\ pure = NoPure
    /\ sessions = NoSessions
    /\ cl = NoClientCall

\* a call on version v starts: what it finds
Started(op, kind, v) ==
    [Idle EXCEPT !.active = TRUE, !.op = op, !.kind = kind, !.v = v,
                 !.pre = IsVersionInstalled(fs, v),
                 !.fresh = (fs[v] \in {NoDir, EmptyDir}),
                 !.prevDl = IF last.kind = "ensure" /\ last.v = v THEN Len(last.tries) ELSE -1,
                 !.before = fs]

\* the call c returns after the step with result r
Returned(c, r) ==
    [NoCall EXCEPT !.op = c.op, !.kind = c.kind, !.v = c.v, !.ok = (r.next = "ok"),
                   !.tries = c.tries \o r.tries, !.exFail = (c.exFail \/ r.exFail),
                   !.pre = c.pre, !.fresh = c.fresh, !.prevDl = c.prevDl,
                   !.same = (r.fs[c.v] = c.before[c.v]),
                   !.regSame = (r.fs = c.before)]

\* the step that starts a call: it returns, or it goes on to the .pkg attempt
Step(op, kind, v, r) ==
    /\ fs' = r.fs
    /\ calls' = calls + 1
    /\ IF r.next = "pkg"
       THEN /\ call' = [Started(op, kind, v) EXCEPT !.tries = r.tries, !.exFail = r.exFail]
            /\ last' = NoCall
       ELSE /\ call' = Idle
            /\ last' = Returned(Started(op, kind, v), r)

DoInstallTSH ==
    /\ ~call.active
    /\ calls < MaxCalls
    /\ \E v \in Versions, o \in OutcomesOn(goos) :
           Step("InstallTSH", "install", v, InstallTSH(fs, v, o, goos))
    /\ UNCHANGED <<environ, det, goos, config, pure, sessions, cl>>

DoClientInstallTSHVersion ==
    /\ ~call.active
    /\ calls < MaxCalls
    /\ \E v \in Versions, o \in OutcomesOn(goos) :
           Step("InstallTSHVersion", "install", v, ClientInstallTSHVersion(fs, v, o, goos))
    /\ UNCHANGED <<environ, det, goos, config, pure, sessions, cl>>

DoHandlerAutoInstallTSH ==
    /\ ~call.active
    /\ calls < MaxCalls
    /\ \E v \in Versions, o \in OutcomesOn(goos) :
           Step("AutoInstallTSH", "install", v, HandlerAutoInstallTSH(fs, v, o, goos))
    /\ UNCHANGED <<environ, det, goos, config, pure, sessions, cl>>

DoHandlerInstallTSH ==
    /\ ~call.active
    /\ calls < MaxCalls
    /\ \E v \in Versions, o \in OutcomesOn(goos) :
           Step("HandlerInstallTSH", "ensure", v, HandlerInstallTSH(fs, v, o, goos))
    /\ UNCHANGED <<environ, det, goos, config, pure, sessions, cl>>

DoAutoInstallForEnvironment ==
    /\ ~call.active
    /\ calls < MaxCalls
    /\ \E v \in Versions, o \in OutcomesOn(goos) :
           Step("AutoInstallForEnvironment", "ensure", v,
                AutoInstallForEnvironment(fs, v, o, goos))
    /\ UNCHANGED <<environ, det, goos, config, pure, sessions, cl>>

DoEnsureTSHVersion ==
    /\ ~call.active
    /\ calls < MaxCalls
    /\ \E env \in Envs \cup {"ghost"}, reply \in ConfigReplies, o \in OutcomesOn(goos) :
           LET detected == DetectTSHVersion(config[env].proxy, reply, environ)
               need == RequiredVersion(config, env, detected)
           IN /\ config' = EnsureConfig(config, env, need)
              /\ IF need.err
                 THEN /\ fs' = fs
                      /\ calls' = calls + 1
                      /\ call' = Idle
                      /\ last' = [NoCall EXCEPT !.op = "EnsureTSHVersion", !.ok = FALSE]
                 ELSE Step("EnsureTSHVersion", "ensure", need.version,
                           EnsureTSHVersion(need, fs, o, goos))
    /\ UNCHANGED <<environ, det, goos, pure, sessions, cl>>

\* the .pkg attempt of the call in progress, and its return
DoInstallTSHPkg ==
    /\ call.active
    /\ \E o \in OutcomesOn(goos) :
           LET r == InstallTSHPkg(fs, call.v, o, goos)
           IN /\ fs' = r.fs
              /\ last' = Returned(call, r)
              /\ call' = Idle
              /\ calls' = calls
    /\ UNCHANGED <<environ, det, goos, config, pure, sessions, cl>>

DoUninstallVersion ==
    /\ ~call.active
    /\ calls < MaxCalls
    /\ \E v \in Versions :
           Step("UninstallVersion", "uninstall", v, UninstallVersion(fs, v))
    /\ UNCHANGED <<environ, det, goos, config, pure, sessions, cl>>

DoIsVersionInstalled ==
    /\ ~call.active
    /\ \E v \in Versions :
           last' = [NoCall EXCEPT !.op = "IsVersionInstalled", !.kind = "query", !.v = v,
                                  !.yes = IsVersionInstalled(fs, v)]
    /\ UNCHANGED <<environ, det, goos, fs, config, call, calls, pure, sessions, cl>>

DoIsTSHVersionInstalled ==
    /\ ~call.active
    /\ \E v \in Versions :
           last' = [NoCall EXCEPT !.op = "IsTSHVersionInstalled", !.kind = "query", !.v = v,
                                  !.yes = IsTSHVersionInstalled(fs, v)]
    /\ UNCHANGED <<environ, det, goos, fs, config, call, calls, pure, sessions, cl>>

DoGetInstalledVersions ==
    /\ ~call.active
    /\ last' = [NoCall EXCEPT !.op = "GetInstalledVersions", !.kind = "query",
                              !.ok = ~GetInstalledVersions(fs).err,
                              !.list = GetInstalledVersions(fs).list,
                              !.isNil = GetInstalledVersions(fs).isNil]
    /\ UNCHANGED <<environ, det, goos, fs, config, call, calls, pure, sessions, cl>>

Next ==
    \/ DoInstallTSH
    \/ DoClientInstallTSHVersion
    \/ DoHandlerAutoInstallTSH
    \/ DoHandlerInstallTSH
    \/ DoAutoInstallForEnvironment
    \/ DoEnsureTSHVersion
    \/ DoInstallTSHPkg
    \/ DoUninstallVersion
    \/ DoIsVersionInstalled
    \/ DoIsTSHVersionInstalled
    \/ DoGetInstalledVersions

Spec == Init /\ [][Next]_vars

\* os.Setenv / os.Unsetenv, as the tests of the detector do
Setenv ==
    \E n \in EnvNames, val \in EnvValues :
        /\ environ[n] /= val
        /\ environ' = [environ EXCEPT ![n] = val]
        /\ det' = NoDet
        /\ UNCHANGED <<goos, fs, config, last, call, calls, pure, sessions, cl>>

Detect ==
    \E proxy \in Proxies :
        \E reply \in RepliesOf(proxy) :
            LET r == DetectTSHVersion(proxy, reply, environ)
            IN /\ det' = [called |-> TRUE, proxy |-> proxy, reply |-> reply,
                          version |-> r.version, err |-> r.err]
               /\ UNCHANGED <<environ, goos, fs, config, last, call, calls, pure, sessions, cl>>

NextDetector == Setenv \/ Detect

\* the detector does not read the operating system
InitDetector == Init /\ goos = "linux"

SpecDetector == InitDetector /\ [][NextDetector]_vars

(***************************************************************************)
(* Properties of the installer and the registry (specification Spec)       *)
(***************************************************************************)

InstallOps == {"InstallTSH", "InstallTSHVersion", "AutoInstallTSH",
               "HandlerInstallTSH", "AutoInstallForEnvironment"}

\* the file <registry>/<v>/tsh exists, has an executable bit, and runs
Verified(v) ==
    /\ StatTSH(fs[v]).kind = "file"
    /\ StatTSH(fs[v]).x
    /\ StatTSH(fs[v]).body = "good"

\* C1, as amended: of two consecutive ensure-installed calls for a version, with
\* no other call in between, the second one makes no download, returns success
\* and leaves the registry as it is whenever the version is verified-installed
\* when it starts (the first call found it so or left it so).
C1_SecondEnsureDownloadsNothing ==
    (last.kind = "ensure" /\ last.prevDl >= 0 /\ last.pre)
        => (last.tries = <<>> /\ last.ok /\ last.regSame)

\* the first call installed the version with one download, the second found it
C1_SecondEnsureAfterInstall ==
    /\ last.kind = "ensure"
    /\ last.prevDl = 1
    /\ last.pre
    /\ last.tries = <<>>
    /\ last.ok

\* C1, as stated: two consecutive ensure-installed calls for a version make at
\* most one download in total, and the second makes none after the first made one.
C1_AtMostOneDownload ==
    (last.kind = "ensure" /\ last.prevDl >= 0)
        => /\ last.prevDl + Len(last.tries) <= 1
           /\ last.prevDl > 0 => last.tries = <<>>

\* C2: an install entry point called for a version that is verified-installed
\* returns success, makes no download and leaves the version directory as it is.
C2_InstalledVersionUntouched ==
    (last.op \in InstallOps /\ last.pre)
        => (last.ok /\ last.tries = <<>> /\ last.same)

\* C3: in every state, for every version, IsVersionInstalled is true exactly when
\* <registry>/<v>/tsh exists, has an executable bit and runs; the answer a query
\* gave is the one the files give, so a present but broken binary is not installed.
C3_InstalledIffVerified ==
    /\ \A v \in Versions : IsVersionInstalled(fs, v) <=> Verified(v)
    /\ \A v \in Versions : IsTSHVersionInstalled(fs, v) <=> Verified(v)
    /\ last.op \in {"IsVersionInstalled", "IsTSHVersionInstalled"}
           => (last.yes <=> Verified(last.v))

\* a query on a binary that is present and executable, but does not run
C3_BrokenBinaryNotInstalled ==
    /\ last.op = "IsVersionInstalled"
    /\ ~last.yes
    /\ StatTSH(fs[last.v]).kind = "file"
    /\ StatTSH(fs[last.v]).x
    /\ StatTSH(fs[last.v]).body = "bad"

\* C4: GetInstalledVersions returns exactly the version directories that exist and
\* hold a verified binary: none of those is missing, no other directory is listed.
C4_ListIsVerifiedSubdirs ==
    /\ GetInstalledVersions(fs).list = {v \in Versions : fs[v].exists /\ Verified(v)}
    /\ last.op = "GetInstalledVersions"
           => (last.ok /\ last.list = {v \in Versions : fs[v].exists /\ Verified(v)})

\* a listing that names one version and leaves out a directory that is not verified
C4_ListLeavesOutUnverified ==
    /\ last.op = "GetInstalledVersions"
    /\ last.list /= {}
    /\ \E v \in Versions : fs[v].exists /\ v \notin last.list

\* C5: when an install of a version whose directory was missing or empty fails and
\* the extraction of a downloaded archive failed in it, the version directory
\* holds no file afterwards and the version is not installed.
C5_ExtractionFailureLeavesNoFile ==
    (last.op \in InstallOps /\ ~last.ok /\ last.exFail /\ last.fresh)
        => (fs[last.v] = EmptyDir /\ ~IsVersionInstalled(fs, last.v))

\* C6: when an install fails, whatever the stage, no scratch archive and no
\* extraction directory is left, and a directory that held no binary holds none.
C6_FailedInstallLeavesNoArtifact ==
    (last.op \in InstallOps /\ ~last.ok)
        => /\ ~fs[last.v].tgz
           /\ ~fs[last.v].pkg
           /\ ~fs[last.v].temp
           /\ last.fresh => (fs[last.v].tsh = NoFile /\ fs[last.v].app = NoApp)

\* C7: UninstallVersion of a version that holds nothing (its directory is missing,
\* or empty because only failed installs touched it) returns an error and leaves
\* the registry unchanged.
C7_UninstallOfAbsentVersionFails ==
    (last.op = "UninstallVersion" /\ last.fresh)
        => (~last.ok /\ last.regSame)

(***************************************************************************)
(* Properties of the version detector (specification SpecDetector)         *)
(***************************************************************************)

\* C8: DetectTSHVersion returns what the first succeeding strategy yields, in the
\* order server, hostname, environment, and fails only when all three yield nothing.
C8_FirstStrategyWins ==
    det.called =>
        LET remote == getVersionFromServer(det.reply)
            host == matchHostname(det.proxy)
            over == getVersionFromEnvironment(det.proxy, environ)
        IN /\ ~remote.err => (~det.err /\ det.version = remote.version)
           /\ (remote.err /\ host.matched) => (~det.err /\ det.version = host.version)
           /\ (remote.err /\ ~host.matched /\ over /= "")
                  => (~det.err /\ det.version = over)
           /\ det.err <=> (remote.err /\ ~host.matched /\ over = "")
           /\ det.err => det.version = ""

\* the server and the hostname yield different versions, and so do the hostname
\* and an override in another detection: here the server's is returned
C8_ServerBeatsHostname ==
    /\ det.called
    /\ ~getVersionFromServer(det.reply).err
    /\ matchHostname(det.proxy).matched
    /\ matchHostname(det.proxy).version /= getVersionFromServer(det.reply).version
    /\ getVersionFromEnvironment(det.proxy, environ) /= ""
    /\ det.version = getVersionFromServer(det.reply).version

\* C9: a version that DetectTSHVersion returns starts neither with "v" nor with
\* "teleport-" nor with "tsh-", whatever its source.
C9_NoPrefixLeft ==
    (det.called /\ ~det.err)
        => /\ ~HasPrefix(det.version, "v")
           /\ ~HasPrefix(det.version, "teleport-")
           /\ ~HasPrefix(det.version, "tsh-")

\* the override variables that are read for the empty proxy
EmptyProxyOverrides ==
    {"TELEPORT_VERSION", "TSH_VERSION", "TELEPORT_TSH_VERSION",
     "_TELEPORT_VERSION", "_TSH_VERSION"}

\* C10, as amended: for the empty proxy the server and the hostname yield nothing,
\* and DetectTSHVersion fails, with an empty version, exactly when the override
\* variables yield nothing: always when none of them is set, and otherwise it
\* returns the normalized value of the first that is set.
C10_EmptyProxyFailsUnlessOverride ==
    (det.called /\ det.proxy = "") =>
        /\ (\A n \in EmptyProxyOverrides : Getenv(environ, n) = "")
               => (det.err /\ det.version = "")
        /\ det.err <=> getVersionFromEnvironment("", environ) = ""
        /\ det.version = getVersionFromEnvironment("", environ)

\* the empty proxy with TELEPORT_VERSION set: the override is returned
C10_EmptyProxyWithOverride ==
    /\ det.called
    /\ det.proxy = ""
    /\ Getenv(environ, "TELEPORT_VERSION") = "v15.0.0"
    /\ ~det.err
    /\ det.version = "15.0.0"

\* C10, as stated: for the empty proxy DetectTSHVersion fails with an empty version.
C10_EmptyProxyAlwaysFails ==
    (det.called /\ det.proxy = "") => (det.err /\ det.version = "")

\* the overrides, in the order they are consulted, whose normalized value is not empty
UsableOverrides(proxy, env) ==
    {n \in 1..Len(overrideVars(proxy)) :
        normalizeVersion(Getenv(env, overrideVars(proxy)[n])) /= ""}

\* C11: when the server yields nothing and the hostname has no version, and some
\* override yields a non-empty version, DetectTSHVersion returns the normalized
\* value of the first override that does, in the order global, then proxy-specific.
C11_FirstUsableOverride ==
    (/\ det.called
     /\ getVersionFromServer(det.reply).err
     /\ ~matchHostname(det.proxy).matched
     /\ UsableOverrides(det.proxy, environ) /= {})
        => LET first == CHOOSE n \in UsableOverrides(det.proxy, environ) :
                            \A m \in UsableOverrides(det.proxy, environ) : n <= m
           IN /\ ~det.err
              /\ det.version =
                     normalizeVersion(Getenv(environ, overrideVars(det.proxy)[first]))

(***************************************************************************)
(* Functions that read no state (specification SpecPure): the initial      *)
(* state draws the function and its input, the action applies it.          *)
(***************************************************************************)

\* versions for getPkgPackageInfo: majors of one to three digits around the
\* threshold, alone and with minor and patch numbers
PkgMajors == {"1", "2", "7", "9", "10", "16", "17", "18", "20", "99", "100", "170"}
PkgSuffixes == {"", ".0", ".7.1", ".5.13", ".0.0"}
PkgVersions == {m \o x : m \in PkgMajors, x \in PkgSuffixes}

\* environment names for getSessionDir: keys of "environments" in config.json,
\* which AddEnvironment and the JSON decoder take as they come
DirEnvNames == {"prod", "test", "dev", "prod/eu", "prod/", "./prod", "test/../prod",
                "Prod", "prod-eu", ".", "", "..", "../tsh"}

\* inputs of getEffectiveUser: whether the configuration loads, whether it has
\* the environment, the users it names, $USER and the home directory.  A
\* configuration that does not load names no user, and neither does an
\* environment that is not there
UserInputs ==
    {i \in [cfgErr : BOOLEAN, exists : BOOLEAN, envUser : {"", "alice"},
            defaultUser : {"", "bob"}, user : {"", "carol"},
            home : {[err |-> TRUE, dir |-> ""], [err |-> FALSE, dir |-> "/home/dave"],
                    [err |-> FALSE, dir |-> "/"]}] :
        /\ i.cfgErr => (~i.exists /\ i.defaultUser = "")
        /\ ~i.exists => i.envUser = ""}

\* the configuration an input of getEffectiveUser stands for
UserConfig(i) ==
    [err |-> i.cfgErr,
     envs |-> IF i.exists THEN [e \in {"prod"} |-> [user |-> i.envUser]] ELSE <<>>,
     default_user |-> i.defaultUser]

\* lines that "tsh status" prints
StatusLines ==
    { "> Profile URL:        https://teleport.prod.env:443",
      "  Logged in as:       alice",
      "You are logged in",
      "Valid until: 2099-01-01 [valid for 11h29m0s]",
      "  Valid until:       2099-01-01 12:00:00 +0000 UTC [valid for 45m0s]",
      "  Valid until:       2024-01-01 12:00:00 +0000 UTC [EXPIRED]",
      "  Valid until:       2099-06-30 08:00:00 +0000 UTC",
      "" }

\* outputs of a status call that exits with 0: one or two such lines
StatusOutputs ==
    {<<a>> : a \in StatusLines} \cup {<<a, b>> : a \in StatusLines, b \in StatusLines}

\* inputs of findTSHInDirectory: the extracted tree, the operating system, and the
\* version InstallTSH was called with
FindVersions == {"9.3.26", "16.4.0", "17.7.1", "18.0.0"}
FindInputs == [tree : Trees, os : {"darwin", "linux"}, version : FindVersions]

PureCalls ==
    [fn : {"getPkgPackageInfo"}, in : PkgVersions, done : {FALSE}, out : {""}]
    \cup [fn : {"getSessionDir"},
          in : {p \in DirEnvNames \X DirEnvNames : p[1] /= p[2]},
          done : {FALSE}, out : {""}]
    \cup [fn : {"getEffectiveUser"}, in : UserInputs, done : {FALSE}, out : {""}]
    \cup [fn : {"GetSessionInfo"}, in : StatusOutputs, done : {FALSE}, out : {""}]
    \cup [fn : {"findTSHInDirectory"}, in : FindInputs, done : {FALSE}, out : {""}]

InitPure ==
    /\ environ = [n \in EnvNames |-> ""]
    /\ det = NoDet
    /\ goos = "darwin"
    /\ fs = [w \in Versions \cup {""} |-> NoDir]
    /\ config = InitConfig
    /\ last = NoCall
    /\ call = Idle
    /\ calls = 0
    /\ pure \in PureCalls
    /\ sessions = NoSessions
    /\ cl = NoClientCall

CallGetPkgPackageInfo ==
    /\ pure.fn = "getPkgPackageInfo"
    /\ ~pure.done
    /\ pure' = [pure EXCEPT !.done = TRUE, !.out = pkgPackageName(pure.in)]
    /\ UNCHANGED <<environ, det, goos, fs, config, last, call, calls, sessions, cl>>

\* getSessionDir for two environments of one configuration
CallGetSessionDir ==
    /\ pure.fn = "getSessionDir"
    /\ ~pure.done
    /\ pure' = [pure EXCEPT !.done = TRUE,
                            !.out = <<getSessionDir(pure.in[1]), getSessionDir(pure.in[2])>>]
    /\ UNCHANGED <<environ, det, goos, fs, config, last, call, calls, sessions, cl>>

CallGetEffectiveUser ==
    /\ pure.fn = "getEffectiveUser"
    /\ ~pure.done
    /\ pure' = [pure EXCEPT !.done = TRUE,
                            !.out = getEffectiveUser(UserConfig(pure.in), "prod",
                                                     pure.in.user, pure.in.home)]
    /\ UNCHANGED <<environ, det, goos, fs, config, last, call, calls, sessions, cl>>

\* GetSessionInfo, from the output of a status call that succeeded
CallGetSessionInfo ==
    /\ pure.fn = "GetSessionInfo"
    /\ ~pure.done
    /\ pure' = [pure EXCEPT !.done = TRUE, !.out = parseSessionInfo(pure.in)]
    /\ UNCHANGED <<environ, det, goos, fs, config, last, call, calls, sessions, cl>>

\* findTSHInDirectory on the tree extracted for an install of pure.in.version
CallFindTSHInDirectory ==
    /\ pure.fn = "findTSHInDirectory"
    /\ ~pure.done
    /\ pure' = [pure EXCEPT !.done = TRUE,
                            !.out = findTSHInDirectory(pure.in.tree, pure.in.os)]
    /\ UNCHANGED <<environ, det, goos, fs, config, last, call, calls, sessions, cl>>

NextPure ==
    \/ CallGetPkgPackageInfo
    \/ CallGetSessionDir
    \/ CallGetEffectiveUser
    \/ CallGetSessionInfo
    \/ CallFindTSHInDirectory

SpecPure == InitPure /\ [][NextPure]_vars

\* the number a string of digits denotes
RECURSIVE DecimalValue(_, _)
DecimalValue(s, n) ==
    IF n = 0 THEN 0
    ELSE 10 * DecimalValue(s, n - 1) + (ByteOf[At(s, n)] - ByteOf["0"])

IsDecimal(s) == Len(s) > 0 /\ \A i \in 1..Len(s) : At(s, i) \in Digits

\* C12: for a version whose major component is a decimal number M, the macOS
\* package is named teleport-<version>.pkg when M >= 17 and tsh-<version>.pkg
\* when M < 17, M being compared as a number.
C12_PkgNameByNumericMajor ==
    (pure.fn = "getPkgPackageInfo" /\ pure.done /\ IsDecimal(pkgMajor(pure.in)))
        => pure.out =
               (IF DecimalValue(pkgMajor(pure.in), Len(pkgMajor(pure.in))) >= 17
                THEN "teleport-" ELSE "tsh-") \o pure.in \o ".pkg"

\* directory a is directory b or lies under it
Within(a, b) == Len(a) >= Len(b) /\ SubSeq(a, 1, Len(b)) = b

\* C14: the session directories of two distinct environment names are distinct,
\* and neither lies under the other.
C14_SessionDirsDisjoint ==
    (pure.fn = "getSessionDir" /\ pure.done)
        => (~Within(pure.out[1], pure.out[2]) /\ ~Within(pure.out[2], pure.out[1]))

\* C15: getEffectiveUser returns the first that is set of: the environment's own
\* user, the default user, the operating-system user name ($USER, else the name
\* of the home directory), and "unknown" when there is none.
C15_FirstUserSourceWins ==
    (pure.fn = "getEffectiveUser" /\ pure.done)
        => pure.out =
               (IF pure.in.envUser /= "" THEN pure.in.envUser
                ELSE IF pure.in.defaultUser /= "" THEN pure.in.defaultUser
                ELSE IF pure.in.user /= "" THEN pure.in.user
                ELSE IF ~pure.in.home.err THEN Base(pure.in.home.dir)
                ELSE "unknown")

\* every source is set, and the environment's own user is returned
C15_EnvUserBeatsDefault ==
    /\ pure.fn = "getEffectiveUser"
    /\ pure.done
    /\ pure.in.envUser = "alice"
    /\ pure.in.defaultUser = "bob"
    /\ pure.in.user = "carol"
    /\ pure.out = "alice"

\* the lines of an output that hold "Valid until:"
ValidUntilLines(lines) == {i \in 1..Len(lines) : Contains(lines[i], "Valid until:")}

\* the text after "Valid until:" in the first such line, without the white space
\* around it
AfterValidUntil(lines) ==
    LET line == lines[CHOOSE i \in ValidUntilLines(lines) :
                          \A j \in ValidUntilLines(lines) : i <= j]
    IN TrimSpace(SubSeq(line, Index(line, "Valid until:") + Len("Valid until:") + 1,
                        Len(line)))

\* C16: for an output with a "Valid until:" line, GetSessionInfo is authenticated
\* and reads the first such line: with the expiry marker in it, IsExpired is set
\* and no duration is taken from it; without, IsExpired is not set, TimeRemaining
\* is the text between "[valid for " and "]" (empty without a bracket) and
\* ValidUntil the text before the bracket.
C16_ValidUntilLineParsed ==
    (pure.fn = "GetSessionInfo" /\ pure.done /\ ValidUntilLines(pure.in) /= {})
        => LET after == AfterValidUntil(pure.in)
               open == Index(after, "[")
               close == Index(after, "]")
           IN /\ pure.out.IsAuthenticated
              /\ IF Contains(after, "EXPIRED")
                 THEN pure.out.IsExpired /\ pure.out.TimeRemaining = "EXPIRED"
                 ELSE /\ ~pure.out.IsExpired
                      /\ pure.out.TimeRemaining =
                             (IF open < 0 THEN ""
                              ELSE SubSeq(after, open + Len("[valid for ") + 1, close))
                      /\ pure.out.ValidUntil =
                             (IF open < 0 THEN after
                              ELSE TrimSpace(SubSeq(after, 1, open)))

\* the output of the scenario, and what is read from it
C16_ElevenHoursLeft ==
    /\ pure.fn = "GetSessionInfo"
    /\ pure.done
    /\ pure.in = <<"Valid until: 2099-01-01 [valid for 11h29m0s]">>
    /\ pure.out = [IsAuthenticated |-> TRUE, ValidUntil |-> "2099-01-01",
                   TimeRemaining |-> "11h29m0s", IsExpired |-> FALSE]

(***************************************************************************)
(* The client (specification SpecClient): the environment-scoped           *)
(* operations on the configuration, the registry and the session           *)
(* directories, on linux, where InstallTSH makes one attempt.              *)
(***************************************************************************)

InitClient == Init /\ goos = "linux"

Runs == {"run", "fail"}

\* the installation attempts of the client runs: no package, a tsh that does not
\* run, a tsh that runs
ClientOutcomes ==
    {o \in OutcomesOn("linux") :
        o.stage = "download_err" \/ (o.stage = "ok" /\ o.tree.bare = "x")}

\* a client operation returns r
ClientStep(op, env, r) ==
    /\ cl' = [op |-> op, env |-> env, ok |-> r.ok, info |-> r.info,
              launches |-> r.launches, checks |-> r.checks, status |-> r.status,
              logout |-> r.logout, detected |-> r.detected, login |-> r.login,
              auto |-> r.auto,
              again |-> /\ op = "LogoutWithEnv"
                        /\ cl.op = "LogoutWithEnv" /\ cl.env = env /\ cl.ok]
    /\ config' = r.cfg
    /\ fs' = r.fs
    /\ sessions' = r.sess
    /\ UNCHANGED <<environ, det, goos, last, call, calls, pure>>

\* the inputs an operation for env can tell apart: the reply of the proxy when no
\* version is pinned, the outcome of an installation when a version it can need is
\* missing, the MkdirAll of the session directory
RepliesFor(env) ==
    IF env \in DOMAIN config /\ config[env].tsh_version = "" THEN ConfigReplies
    ELSE {NoReply}

\* the operation installs: a version is known and the registry does not hold it
WillInstall(env, detected) ==
    /\ ~RequiredVersion(config, env, detected).err
    /\ ~IsVersionInstalled(fs, RequiredVersion(config, env, detected).version)

OutcomesIf(will) ==
    IF will THEN ClientOutcomes ELSE {o \in ClientOutcomes : o.stage = "download_err"}

MkFor(env) ==
    IF env \in DOMAIN config /\ ~sessions[getSessionDir(env)].exists THEN BOOLEAN
    ELSE {TRUE}

\* how the status, login and kube runs of one operation end
RunsOf3 ==
    { [status |-> "run", login |-> "run", kube |-> "run"],
      [status |-> "fail", login |-> "run", kube |-> "run"],
      [status |-> "fail", login |-> "fail", kube |-> "run"],
      [status |-> "run", login |-> "run", kube |-> "fail"] }

\* what DetectTSHVersion returns for the proxy of env; the operations call it only
\* for a configured environment with no version pinned
DetectFor(env, reply) ==
    IF env \in DOMAIN config /\ config[env].tsh_version = ""
    THEN DetectTSHVersion(config[env].proxy, reply, environ)
    ELSE Err

\* what InstallTSH does for each version, in the registry as it is
Installs(o) == [v \in Versions |-> InstallTSH(fs, v, o, goos)]

\* how a logout run can end with the credentials the session directory holds
LogoutRuns(env) ==
    IF env \in DOMAIN config /\ sessions[getSessionDir(env)].cred /= "none" THEN Runs
    ELSE Runs \cup {"absent", "absent2"}

DoGetSessionInfo ==
    \E env \in Envs \cup {"ghost"} : \E mk \in MkFor(env), run \in Runs :
        ClientStep("GetSessionInfo", env, GetSessionInfo(config, fs, sessions, env, mk, run))

DoCheckAuthenticationStatus ==
    \E env \in Envs \cup {"ghost"} : \E mk \in MkFor(env), run \in Runs :
        ClientStep("CheckAuthenticationStatus", env,
                   CheckAuthenticationStatus(config, fs, sessions, env, mk, run))

DoIsAuthenticatedWithEnv ==
    \E env \in Envs \cup {"ghost"} : \E reply \in RepliesFor(env) :
        \E detected \in {DetectFor(env, reply)} :
           \E o \in OutcomesIf(WillInstall(env, detected)), mk \in MkFor(env), run \in Runs :
               ClientStep("IsAuthenticatedWithEnv", env,
                          IsAuthenticatedWithEnv(config, fs, sessions, env, detected,
                                                 Installs(o), mk, run))

DoLoginWithEnv ==
    \E env \in Envs \cup {"ghost"} : \E reply \in RepliesFor(env) :
        \E detected \in {DetectFor(env, reply)} :
           \E o \in OutcomesIf(WillInstall(env, detected)), mk \in MkFor(env), run \in Runs :
               ClientStep("LoginWithEnv", env,
                          LoginWithEnv(config, fs, sessions, env, detected, Installs(o),
                                       mk, run))

DoKubeLoginWithEnv ==
    \E env \in Envs \cup {"ghost"} : \E reply \in RepliesFor(env) :
        \E detected \in {DetectFor(env, reply)} :
           \E o \in OutcomesIf(WillInstall(env, detected)), mk \in MkFor(env), run \in Runs :
               ClientStep("KubeLoginWithEnv", env,
                          KubeLoginWithEnv(config, fs, sessions, env, detected, Installs(o),
                                       mk, run))

DoGetClusters ==
    \E env \in Envs \cup {"ghost"} : \E reply \in RepliesFor(env) :
        \E detected \in {DetectFor(env, reply)} :
           \E o \in OutcomesIf(WillInstall(env, detected)), mk \in MkFor(env), run \in Runs :
               ClientStep("GetClusters", env,
                          GetClusters(config, fs, sessions, env, detected, Installs(o),
                                      mk, run))

DoLogoutWithEnv ==
    \E env \in Envs \cup {"ghost"} : \E mk \in MkFor(env), run \in LogoutRuns(env) :
        ClientStep("LogoutWithEnv", env, LogoutWithEnv(config, fs, sessions, env, mk, run))

DoHandlerLogout ==
    \E env \in Envs \cup {"ghost", ""} :
        \E mk \in (IF env = "" THEN BOOLEAN ELSE MkFor(env)),
           run \in (IF env = "" THEN Runs \cup {"absent"} ELSE LogoutRuns(env)) :
            ClientStep("Logout", env, HandlerLogout(config, fs, sessions, env, mk, run))

\* how the status, login and kube runs of ConnectToCluster end, with the
\* auto_login setting
ConnectRuns ==
    { [auto |-> TRUE, status |-> "run", login |-> "run", kube |-> "run"],
      [auto |-> TRUE, status |-> "run", login |-> "run", kube |-> "fail"],
      [auto |-> FALSE, status |-> "fail", login |-> "run", kube |-> "run"],
      [auto |-> TRUE, status |-> "fail", login |-> "fail", kube |-> "run"],
      [auto |-> TRUE, status |-> "fail", login |-> "run", kube |-> "run"] }

DoConnectToCluster ==
    \E env \in Envs \cup {"ghost"} : \E reply \in RepliesFor(env) :
        \E detected \in {DetectFor(env, reply)} :
           \E yes \in (IF WillInstall(env, detected) THEN BOOLEAN ELSE {TRUE}) :
           \E o \in OutcomesIf(yes /\ WillInstall(env, detected)), mk \in MkFor(env),
              runs \in ConnectRuns :
               ClientStep("ConnectToCluster", env,
                          ConnectToCluster(config, fs, sessions, env, detected, Installs(o),
                                           mk, yes, runs.auto, runs))

DoGetClustersForCompletion ==
    \E env \in Envs \cup {"ghost"} : \E reply \in RepliesFor(env) :
        \E detected \in {DetectFor(env, reply)}, mk \in MkFor(env), runs \in RunsOf3 :
            ClientStep("GetClustersForCompletion", env,
                       GetClustersForCompletion(config, fs, sessions, env, detected,
                                                [v \in Versions |-> NoInstall(fs, TRUE)],
                                                mk, runs))

DoClientEnsureTSHVersion ==
    \E env \in Envs \cup {"ghost"} : \E reply \in RepliesFor(env) :
        \E detected \in {DetectFor(env, reply)} :
           \E o \in OutcomesIf(WillInstall(env, detected)) :
               ClientStep("EnsureTSHVersion", env,
                          ensureVersion(config, fs, sessions, env, detected, Installs(o)))

DoAutoDetectAndUpdateTSHVersions ==
    \E reply \in ConfigReplies :
        ClientStep("AutoDetectAndUpdateTSHVersions", "",
                   AutoDetectAndUpdateTSHVersions(config, fs, sessions,
                       [e \in Envs |-> DetectFor(e, reply)]))

\* TSHInstaller.UninstallVersion between two client operations
DoClientUninstallVersion ==
    \E v \in Versions :
        ClientStep("UninstallVersion", "",
                   [Result(config, UninstallVersion(fs, v).fs, sessions) EXCEPT
                       !.ok = UninstallVersion(fs, v).next = "ok"])

NextClient ==
    \/ DoGetSessionInfo
    \/ DoCheckAuthenticationStatus
    \/ DoIsAuthenticatedWithEnv
    \/ DoLoginWithEnv
    \/ DoKubeLoginWithEnv
    \/ DoGetClusters
    \/ DoLogoutWithEnv
    \/ DoHandlerLogout
    \/ DoConnectToCluster
    \/ DoGetClustersForCompletion
    \/ DoClientEnsureTSHVersion
    \/ DoAutoDetectAndUpdateTSHVersions
    \/ DoClientUninstallVersion

SpecClient == InitClient /\ [][NextClient]_vars

\* the operations of C13 that act for one configured environment
ScopedOps == {"LoginWithEnv", "KubeLoginWithEnv", "LogoutWithEnv", "Logout"}

\* C13: a login, kube login or logout for environment A leaves what GetSessionInfo
\* returns for every other configured environment B as it was, whatever the
\* status run of B does.
C13_OtherSessionsUnchanged ==
    [][(cl'.op \in ScopedOps /\ cl'.env \in Envs) =>
          \A b \in Envs \ {cl'.env} : \A mk \in BOOLEAN, run \in Runs :
              GetSessionInfo(config', fs', sessions', b, mk, run).info
                  = GetSessionInfo(config, fs, sessions, b, mk, run).info]_vars

\* the operations that answer whether the user is authenticated
StatusOps == {"GetSessionInfo", "CheckAuthenticationStatus", "IsAuthenticatedWithEnv"}

\* an output with one of the two markers in it
SaysLoggedIn(out) ==
    \E i \in 1..Len(out.lines) :
        Contains(out.lines[i], "logged in") \/ Contains(out.lines[i], "Valid until")

LaunchOps ==
    StatusOps \cup {"LoginWithEnv", "KubeLoginWithEnv", "GetClusters", "LogoutWithEnv"}

\* C18: every launch of an environment-scoped operation is of the binary of the
\* required version, for which IsVersionInstalled returned true in the operation;
\* with the environment unknown or the version not verified-installed, nothing is
\* launched and the operation returns false or an error.
C18_LaunchOnlyAfterInstalledCheck ==
    cl.op \in LaunchOps =>
        /\ \A i \in 1..Len(cl.launches) :
               /\ cl.launches[i].v = getRequiredTSHVersion(config, cl.env)
               /\ cl.launches[i].v \in cl.checks
        /\ (\/ cl.env \notin DOMAIN config
            \/ getRequiredTSHVersion(config, cl.env) = ""
            \/ ~IsVersionInstalled(fs, getRequiredTSHVersion(config, cl.env)))
               => cl.launches = <<>> /\ ~cl.ok

\* a login that installed a tsh that does not run: the file is there, nothing is
\* launched
C18_BrokenBinaryNotLaunched ==
    /\ cl.op = "LoginWithEnv"
    /\ cl.env \in DOMAIN config
    /\ config[cl.env].tsh_version /= ""
    /\ StatTSH(fs[config[cl.env].tsh_version]).kind = "file"
    /\ ~IsVersionInstalled(fs, config[cl.env].tsh_version)
    /\ cl.launches = <<>>
    /\ ~cl.ok

\* the logout output says the session is already absent
SaysAbsent(out) ==
    \E i \in 1..Len(out.lines) :
        Contains(out.lines[i], "already logged out") \/ Contains(out.lines[i], "Not logged in")

\* C19: a LogoutWithEnv, or a Handler.Logout for one environment, that runs the
\* logout succeeds exactly when the run exits with 0 or says the session is
\* already absent, and it leaves no credentials; the call after a successful one
\* runs the logout again and fails only on a failure of another kind.
C19_LogoutIdempotent ==
    (cl.op = "LogoutWithEnv" \/ (cl.op = "Logout" /\ cl.env /= "")) =>
        /\ cl.logout.ran => (cl.ok <=> (cl.logout.exit = 0 \/ SaysAbsent(cl.logout)))
        /\ cl.ok => cl.logout.ran /\ sessions[getSessionDir(cl.env)].cred = "none"
        /\ cl.again => /\ cl.logout.ran
                       /\ cl.ok \/ (cl.logout.exit /= 0 /\ ~SaysAbsent(cl.logout))

\* the second of two logouts in a row, its run failing with "Not logged in"
C19_SecondLogoutOfAbsentSession ==
    /\ cl.op = "LogoutWithEnv"
    /\ cl.again
    /\ cl.logout.exit /= 0
    /\ SaysAbsent(cl.logout)
    /\ cl.ok

\* C20: no operation runs the detection for an environment with a pinned version
\* or changes that version, and what it launches in the session directory of that
\* environment is the binary of the pinned version; a version changes only from
\* empty, by a detection, to a non-empty one.
C20_PinnedVersionRespected ==
    [][\A e \in Envs :
          /\ config[e].tsh_version /= ""
                => /\ e \notin cl'.detected
                   /\ config'[e].tsh_version = config[e].tsh_version
                   /\ \A i \in 1..Len(cl'.launches) :
                          cl'.launches[i].home = getSessionDir(e)
                              => cl'.launches[i].v = config[e].tsh_version
          /\ config'[e].tsh_version /= config[e].tsh_version
                => /\ config[e].tsh_version = ""
                   /\ e \in cl'.detected
                   /\ config'[e].tsh_version /= ""]_vars

\* the detection for all environments, run for dev alone, prod keeping its pin
C20_DetectionSkipsPinned ==
    /\ cl.op = "AutoDetectAndUpdateTSHVersions"
    /\ cl.detected = {"dev"}
    /\ config["dev"].tsh_version /= ""
    /\ config["prod"].tsh_version = "17.7.1"

(***************************************************************************)
(* Further properties of the installer and the registry (specification     *)
(* Spec)                                                                   *)
(***************************************************************************)

\* C22: in every reachable registry state (root missing, root empty, root holding
\* only unverified directories, root holding verified versions) GetInstalledVersions
\* returns no error and a list that is not nil.
C22_ListNeverNil ==
    last.op = "GetInstalledVersions" => (last.ok /\ ~last.isNil)

\* the entry points that are installer.InstallTSH with no check in front
DirectInstallOps == {"InstallTSH", "InstallTSHVersion", "AutoInstallTSH"}

\* InstallTSH alone, under the scheduling of a sequential program: a call that
\* has gone on to its .pkg attempt makes it
NextInstall == DoInstallTSH \/ DoInstallTSHPkg

SpecInstall == Init /\ [][NextInstall]_vars /\ WF_vars(DoInstallTSHPkg)

Shaped(d, found) ==
    /\ ~d.tgz /\ ~d.pkg /\ ~d.temp
    /\ found = "app" => (d.tsh.kind = "link" /\ d.app.kind = "dir" /\ d.app.exe.kind = "file")
    /\ found \in {"bare", "appexe"} => (d.tsh.kind = "file" /\ d.tsh.x)

\* C24: when InstallTSH returns success, <registry>/<v>/tsh is a regular executable
\* file if the package held a bare binary and a symbolic link to Contents/MacOS/tsh
\* of the copied bundle if it held a bundle, and the version directory holds no
\* scratch archive and no extraction directory.
C24_OneWellKnownFile ==
    [][/\ \A v \in Versions, o \in OutcomesOn(goos) :
              (/\ ~call.active
               /\ last'.op = "InstallTSH" /\ last'.v = v /\ last'.ok
               /\ InstallTSH(fs, v, o, goos).next = "ok"
               /\ fs' = InstallTSH(fs, v, o, goos).fs)
                  => Shaped(fs'[v], findTSHInDirectory(o.tree, goos))
       /\ \A o \in OutcomesOn(goos) :
              (/\ call.active
               /\ last'.op = "InstallTSH" /\ last'.ok
               /\ InstallTSHPkg(fs, call.v, o, goos).next = "ok"
               /\ fs' = InstallTSHPkg(fs, call.v, o, goos).fs)
                  => Shaped(fs'[call.v], findTSHInDirectory(o.tree, goos))]_vars

(***************************************************************************)
(* Further properties of functions that read no state (specification       *)
(* SpecPure)                                                               *)
(***************************************************************************)

\* C25: for a tree that holds both a bare executable tsh and a bundle tsh.app with
\* its executable, findTSHInDirectory returns the bundle when the major version is
\* 17 or more and the bare executable when it is less; for a tree with neither a
\* file named tsh nor a bundle it returns the binary-not-found error.
C25_ShapeByMajorVersion ==
    (pure.fn = "findTSHInDirectory" /\ pure.done)
        => /\ (pure.in.tree.bare = "x" /\ pure.in.tree.app = "x")
                  => pure.out =
                         (IF DecimalValue(pkgMajor(pure.in.version),
                                          Len(pkgMajor(pure.in.version))) >= 17
                          THEN "app" ELSE "bare")
           /\ (pure.in.tree.bare = "none" /\ pure.in.tree.app = "none") => pure.out = ""

(***************************************************************************)
(* Further properties of the installer and the registry (specification     *)
(* Spec), continued                                                        *)
(***************************************************************************)

\* C26: when InstallTSH, Client.InstallTSHVersion, the handlers' install entry
\* points, AutoInstallForEnvironment or EnsureTSHVersion return success, the
\* version is verified-installed on return; an install whose binary fails the
\* probe is therefore reported as a failure.
C26_SuccessMeansInstalled ==
    (last.op \in InstallOps \cup {"EnsureTSHVersion"} /\ last.kind /= "none" /\ last.ok)
        => IsVersionInstalled(fs, last.v)

\* C27: when InstallTSH is called for a version that is verified-installed and
\* fails, at whatever stage, the version is still verified-installed on return.
C27_FailedReinstallKeepsBinary ==
    (last.op \in DirectInstallOps /\ last.pre /\ ~last.ok)
        => IsVersionInstalled(fs, last.v)

(***************************************************************************)
(* UninstallVersion for every version string (specification SpecRegistry): *)
(* installs fill the registry, and any version, the empty string included, *)
(* is uninstalled                                                          *)
(***************************************************************************)

DoUninstallAnyVersion ==
    /\ ~call.active
    /\ \E v \in Versions \cup {""} :
           /\ fs' = UninstallVersion(fs, v).fs
           /\ last' = Returned(Started("UninstallVersion", "uninstall", v),
                               UninstallVersion(fs, v))
    /\ UNCHANGED <<environ, det, goos, config, call, calls, pure, sessions, cl>>

NextRegistry == DoInstallTSH \/ DoInstallTSHPkg \/ DoUninstallAnyVersion

SpecRegistry == Init /\ [][NextRegistry]_vars

\* C28: after UninstallVersion(v) returns success, for every version string v, the
\* empty one included, v is not installed and not listed by GetInstalledVersions,
\* and every other version keeps its files and its installed status.
C28_UninstallRemovesOnlyThatVersion ==
    [][(last'.op = "UninstallVersion" /\ last'.ok)
          => /\ ~IsVersionInstalled(fs', last'.v)
             /\ last'.v \notin GetInstalledVersions(fs').list
             /\ \A w \in Versions \ {last'.v} :
                    /\ fs'[w] = fs[w]
                    /\ IsVersionInstalled(fs', w) <=> IsVersionInstalled(fs, w)]_vars

(***************************************************************************)
(* Further properties of the client (specification SpecClient)             *)
(***************************************************************************)

\* the commands of the launches of an operation, in their order
Cmds(launches) == [i \in 1..Len(launches) |-> launches[i].cmd]

C30_AuthenticatedOnlyUnexpired ==
    (pure.fn = "GetSessionInfo" /\ pure.done /\ statusSaysAuthenticated(Output(0, pure.in)))
        => (pure.out.IsAuthenticated /\ ~pure.out.IsExpired)

(***************************************************************************)
(* Two processes in InstallTSH for the same version (specification         *)
(* SpecRace), on linux, both downloading the same working package.  They   *)
(* share the version directory: the scratch archive, temp_extract and tsh  *)
(* have the same paths for both.  A step is one file operation.  A file is *)
(* an inode: os.Create on a path that exists truncates its inode and keeps *)
(* its mode, a removed path leaves the inode to the handles that are open, *)
(* and of the processes writing the same bytes into one inode, the one     *)
(* that truncated it last completes it.  fs[RaceVersion] carries, besides  *)
(* the fields of a version directory, the inode at each shared path and    *)
(* the inodes' contents; call[p] is the position of process p and the      *)
(* inodes of its open handles.                                             *)
(***************************************************************************)

Procs == {1, 2}
RaceVersion == "16"

\* an inode of the scratch archive or of temp_extract/teleport/tsh: body none |
\* partial | full, x: an executable bit, by: the process that truncated it last
NoInode == [body |-> "none", x |-> FALSE, by |-> 0]

RaceDir ==
    [exists |-> FALSE, tgz |-> FALSE, pkg |-> FALSE, temp |-> FALSE, tsh |-> NoFile,
     app |-> NoApp, tshBy |-> 0,
     archIno |-> 0, arch |-> [i \in Procs |-> NoInode],
     extIno |-> 0, ext |-> [i \in Procs |-> NoInode]]

InitRace ==
    /\ environ = [n \in EnvNames |-> ""]
    /\ det = NoDet
    /\ goos = "linux"
    /\ fs = [w \in Versions \cup {""} |-> IF w = RaceVersion THEN RaceDir ELSE NoDir]
    /\ config = InitConfig
    /\ last = NoCall
    /\ call = [p \in Procs |-> [pc |-> "start", ha |-> 0, ht |-> 0]]
    /\ calls = 0
    /\ pure = NoPure
    /\ sessions = NoSessions
    /\ cl = NoClientCall

\* process p moves to pc, the version directory becomes d
RaceStep(p, pc, d) ==
    /\ call' = [call EXCEPT ![p].pc = pc]
    /\ fs' = [fs EXCEPT ![RaceVersion] = d]
    /\ UNCHANGED <<environ, det, goos, config, last, calls, pure, sessions, cl>>

\* the same, and p opens the inodes ha (archive) and ht (extracted tsh)
RaceOpen(p, pc, ha, ht, d) ==
    /\ call' = [call EXCEPT ![p] = [pc |-> pc, ha |-> ha, ht |-> ht]]
    /\ fs' = [fs EXCEPT ![RaceVersion] = d]
    /\ UNCHANGED <<environ, det, goos, config, last, calls, pure, sessions, cl>>

\* InstallTSH: os.MkdirAll(versionDir)
RaceMkdir ==
    \E p \in Procs :
        /\ call[p].pc = "start"
        /\ call' = [call EXCEPT ![p].pc = "download"]
        /\ fs' = [fs EXCEPT ![""].exists = TRUE, ![RaceVersion].exists = TRUE]
        /\ UNCHANGED <<environ, det, goos, config, last, calls, pure, sessions, cl>>

\* downloadPackage: os.Create(destPath)
RaceCreateArchive ==
    \E p \in Procs :
        LET d == fs[RaceVersion]
            i == IF d.tgz THEN d.archIno ELSE p
        IN /\ call[p].pc = "download"
           /\ RaceOpen(p, "saving", i, 0,
                       [d EXCEPT !.tgz = TRUE, !.archIno = i,
                                 !.arch[i] = [body |-> "partial", x |-> FALSE, by |-> p]])

\* downloadPackage: io.Copy(file, resp.Body) ends
RaceSaveArchive ==
    \E p \in Procs :
        LET d == fs[RaceVersion]
            i == call[p].ha
        IN /\ call[p].pc = "saving"
           /\ RaceStep(p, "extract",
                       IF d.arch[i].by = p THEN [d EXCEPT !.arch[i].body = "full"] ELSE d)

\* extractFromTarGz: os.MkdirAll(tempDir), the deferred RemoveAll is set up;
\* extractTarGz: os.Open(tarPath)
RaceOpenArchive ==
    \E p \in Procs :
        LET d == fs[RaceVersion]
        IN /\ call[p].pc = "extract"
           /\ IF d.tgz
              THEN RaceOpen(p, "reading", d.archIno, 0, [d EXCEPT !.temp = TRUE])
              ELSE RaceStep(p, "failed", [d EXCEPT !.temp = TRUE])

\* extractTarGz: the archive is read up to the entry teleport/tsh (an archive that
\* is being rewritten ends early), os.MkdirAll of its directory, os.Create(path)
RaceExtractCreate ==
    \E p \in Procs :
        LET d == fs[RaceVersion]
            i == IF d.extIno /= 0 THEN d.extIno ELSE p
        IN /\ call[p].pc = "reading"
           /\ IF d.arch[call[p].ha].body /= "full"
              THEN RaceStep(p, "failed", d)
              ELSE RaceOpen(p, "extracting", call[p].ha, i,
                            [d EXCEPT !.temp = TRUE, !.extIno = i,
                                      !.ext[i] = [body |-> "partial", x |-> d.ext[i].x,
                                                  by |-> p]])

\* extractTarGz: io.Copy(file, tr) ends, file.Close(), os.Chmod(path, header.Mode)
RaceExtractWrite ==
    \E p \in Procs :
        LET d == fs[RaceVersion]
            i == call[p].ht
            w == IF d.ext[i].by = p THEN [d EXCEPT !.ext[i].body = "full"] ELSE d
        IN /\ call[p].pc = "extracting"
           /\ IF w.extIno = 0
              THEN RaceStep(p, "failed", w)
              ELSE RaceStep(p, "find", [w EXCEPT !.ext[w.extIno].x = TRUE])

\* the tree that filepath.Walk finds in temp_extract
RaceTree(d) ==
    Tree(IF d.extIno = 0 THEN "none" ELSE IF d.ext[d.extIno].x THEN "x" ELSE "nox",
         d.extIno /= 0, "none")

\* extractFromTarGz: findTSHInDirectory(tempDir)
RaceFind ==
    \E p \in Procs :
        /\ call[p].pc = "find"
        /\ RaceStep(p, IF findTSHInDirectory(RaceTree(fs[RaceVersion]), goos) = ""
                       THEN "failed" ELSE "copy",
                    fs[RaceVersion])

\* copyTSHToDestination: os.Stat(srcPath); copyFile: os.Open(src), os.Create(dst)
RaceCopyCreate ==
    \E p \in Procs :
        LET d == fs[RaceVersion]
        IN /\ call[p].pc = "copy"
           /\ IF d.extIno = 0
              THEN RaceStep(p, "failed", d)
              ELSE RaceOpen(p, "copying", call[p].ha, d.extIno,
                            [WriteTSH(d, RegFile(StatTSH(d).x, "partial")) EXCEPT
                                !.tshBy = p])

\* copyFile: io.Copy(dstFile, srcFile) ends with what the source inode holds;
\* copyTSHToDestination: os.Chmod(destTSHPath, 0755)
RaceCopyWrite ==
    \E p \in Procs :
        LET d == fs[RaceVersion]
            body == IF d.ext[call[p].ht].body = "full" THEN "good" ELSE "partial"
        IN /\ call[p].pc = "copying"
           /\ RaceStep(p, "remove_temp",
                       IF d.tshBy = p THEN WriteTSH(d, RegFile(TRUE, body))
                       ELSE ChmodTSH(d))

\* extractFromTarGz returns: the deferred os.RemoveAll(tempDir)
RaceRemoveTemp ==
    \E p \in Procs :
        /\ call[p].pc \in {"remove_temp", "failed"}
        /\ RaceStep(p, IF call[p].pc = "failed" THEN "remove_archive" ELSE "finish",
                    [fs[RaceVersion] EXCEPT !.temp = FALSE, !.extIno = 0])

\* tryInstallPackage after a successful extraction: os.Stat(tshPath), os.Chmod,
\* os.Remove(packagePath), return nil
RaceFinish ==
    \E p \in Procs :
        LET d == fs[RaceVersion]
        IN /\ call[p].pc = "finish"
           /\ IF StatTSH(d).kind = "none"
              THEN RaceStep(p, "fail", [d EXCEPT !.tgz = FALSE, !.archIno = 0])
              ELSE RaceStep(p, "ok", [ChmodTSH(d) EXCEPT !.tgz = FALSE, !.archIno = 0])

\* tryInstallPackage after a failed extraction: os.Remove(packagePath), return the
\* error; InstallTSH on linux returns it
RaceFailRemoveArchive ==
    \E p \in Procs :
        /\ call[p].pc = "remove_archive"
        /\ RaceStep(p, "fail", [fs[RaceVersion] EXCEPT !.tgz = FALSE, !.archIno = 0])

NextRace ==
    \/ RaceMkdir
    \/ RaceCreateArchive
    \/ RaceSaveArchive
    \/ RaceOpenArchive
    \/ RaceExtractCreate
    \/ RaceExtractWrite
    \/ RaceFind
    \/ RaceCopyCreate
    \/ RaceCopyWrite
    \/ RaceRemoveTemp
    \/ RaceFinish
    \/ RaceFailRemoveArchive

SpecRace == InitRace /\ [][NextRace]_vars

\* C21: once both processes have returned from InstallTSH for the same version, if
\* at least one returned success the version is verified-installed: what the other
\* wrote or cleaned up has neither removed nor corrupted the installed binary.
C21_ConcurrentInstallsLeaveVerified ==
    (/\ \A p \in Procs : call[p].pc \in {"ok", "fail"}
     /\ \E p \in Procs : call[p].pc = "ok")
        => IsVersionInstalled(fs, RaceVersion)

====
